---------------------------- MODULE Spec2Model ----------------------------
(***************************************************************************)
(* A model of the simulation core of the platform game: the animation      *)
(* engine (src/src/animation.rs), the per-entity update pass                *)
(* (src/src/utils.rs, src/src/game/mod.rs) and the spawn processing         *)
(* (src/src/entities.rs).                                                   *)
(*                                                                         *)
(* Times are f64 in the source.  They are modelled as a binary floating-   *)
(* point format of reduced precision: a value is a natural number of units *)
(* of 2^-FracBits, and it is representable when it has at most MantBits    *)
(* significant bits.  Every arithmetic operation rounds its exact result   *)
(* to the nearest representable value, ties to even, as IEEE 754 does.     *)
(***************************************************************************)
EXTENDS Integers, Sequences, FiniteSets, TLC

\* Precision of the modelled floating-point format (f64 has 53 bits).
MantBits == 6
\* The smallest spacing of the format is 2^-FracBits.
FracBits == 5
\* Largest number of sprites of a SpriteSequence drawn as input.
MaxSprites == 3
\* Largest number of entities in the world a run starts from.
MaxInit == 3
\* Largest number of queued spawnables a run starts from.
MaxQueue == 3
\* Largest width and height of a map drawn as input.
MaxSide == 2
\* Largest number of strong handles to one sprite sheet held at a time.
MaxHandles == 2
\* Largest number of sprite sheets read from the source in a run.
MaxSheets == 3
\* Largest number of entity definitions of a map factory, and of entities
\* of a game a run starts from.
MaxDefs == 2
\* Largest number of ticks after the game is constructed.
MaxTicks == 2

VARIABLES
    amap,       \* Animation.animation_map: the policy
    anim,       \* Animation: [states, state_idx, sequence_time]
    failure,    \* "none", or the message of the panic that ended the program
    scriptPos,  \* how far the calls so far follow tests::test_animation (-1: not)
    twice,      \* what the last double update found: [done, same, exact, crossed]
    lastGoto,   \* the last call, when it was goto_state: [done, state, current, mid]
    \* World and Game::update
    entities,   \* World.entities: a sequence of [id, logic]
    spawnables, \* World.spawnables: a sequence of [sid, kind, entity_logic]
    kept,       \* one_rest_split_iter: the entity held out of the vector
    idx,        \* one_rest_split_iter: the loop variable i
    bound,      \* one_rest_split_iter: the end of the range 0..vec.len()
    pc,         \* "ready" between two passes, "loop" inside one
    tfail,      \* "none", or the message of the panic that ended the pass
    created,    \* number of entities created so far (ids are 1..created)
    start,      \* ids of World.entities when the pass started
    visited,    \* ids of the entities updated in this pass, in call order
    cb,         \* the last callback of the running pass: [active, rest, count]
    run,        \* the last Spawn::update of the running pass:
                \* [ran, before, given, polled, added, after]
    addedTick,  \* entities pushed by Spawn::update in this pass
    runsTick,   \* calls of Spawn::update in this pass
    life,       \* by entity id: [turn, age, seen]: the turn of the pass it was
                \* pushed in (0: there from the start, 1: the first turn, 2: a
                \* later one) and, for a pushed entity, the passes begun
                \* since and the age at which it was first updated (-1: not
                \* yet); an entity is followed until the second pass begun
                \* since its push, and is as one of the start from then on
    polls,      \* calls of spawn in this pass, by spawnable
    passed,     \* a pass has run to its end
    \* Map
    map,        \* Map: [width, height, tiletypes, tiles]
    lookup,     \* the last call of tile or tilef: [kind, x, y, result]
    \* SpriteManager
    assets,     \* the names SpriteSheet::from_file can read
    sprites,    \* SpriteManager.sprites: name -> sheet (0: no entry)
    sheets,     \* strong handles alive, by sheet; sheets are numbered as read
    sfail,      \* "none", or the message of the panic that ended the program
    lastLoad,   \* the last call of load: [done, name, result, read, live,
                \* dead, prior]
    \* Game
    factory,    \* MapFactory: [nb_players, entities, width, height, tiletypes,
                \* tiles], entities a sequence of
                \* [type_id, position]
    gpc,        \* "new" before Game::new, "created" before its first update,
                \* "newloop" inside that update, "updated" after it, "ready"
                \* between two ticks, "loop" inside one, "failed" after a panic
    gents,      \* Game.world.entities: a sequence of [id, logic, pos, speed]
    gqueue,     \* Game.world.spawnables
    gkept,      \* one_rest_split_iter: the entity held out of the vector
    gidx,       \* one_rest_split_iter: the loop variable i
    gbound,     \* one_rest_split_iter: the end of the range 0..vec.len()
    focus,      \* focus of Game::update: NoFocus or [lo, hi]
    camera,     \* Game.camera: [aspect_ratio, pos, size, update_rate]
    gfail,      \* "none", or the message of the panic that ended the program
    ticks,      \* calls of Game::update made after Game::new returned
    calls,      \* the positions focus was called with in this tick, in order
    blend,      \* the end of the last tick: [done, before, after, want]
    \* Policies and input
    hist,       \* the last call made on the animation or on its policy:
                \* [op, state, dt, before, current, result]
    input,      \* PlayerInput: [d_right, d_left, d_up, d_down, d_jump, a_x, a_y]
    upd,        \* the call of Animation::update that is running, step by
                \* step: [pc, dt, entry, moved]; pc is "loop" inside the
                \* while loop, entry the animation when the loop was entered,
                \* moved whether an iteration has run
    \* App
    astates,    \* App.states: the stack of [id, kind], the top last
    apc,        \* "run" at the top of the loop of App::run, "events" inside
                \* handle_state, "match" when it returned, "done" after the
                \* loop, "failed" after a panic
    trans,      \* the last StateTransition handle_state returned
    window,     \* Resources.window: [open, capture]
    status,     \* by state id: "none" (not made), "new", "resumed", "paused"
    call,       \* the running call of handle_state: [id, resumes, pauses,
                \* ops, ret]; ops are the calls made on the state since the
                \* last event was taken, ret the one that made it return
    amade,      \* number of states made so far (ids are 1..amade)
    afail       \* "none", or the message of the panic that ended the program

animVars == <<amap, anim, failure, scriptPos, twice, lastGoto>>

tickVars == <<entities, spawnables, kept, idx, bound, pc, tfail, created,
              start, visited, cb, run, addedTick, runsTick, polls, passed,
              life>>

mapVars == <<map, lookup>>

\* The variables of the parts added to the animation and the pass.
spriteVars == <<assets, sprites, sheets, sfail, lastLoad>>

gameVars == <<factory, gpc, gents, gqueue, gkept, gidx, gbound, focus, camera,
              gfail, ticks, calls, blend>>

lateVars == <<hist, input, upd>>

appVars == <<astates, apc, trans, window, status, call, amade, afail>>

moreVars == <<mapVars, spriteVars, gameVars, lateVars, appVars>>

vars == <<amap, anim, failure, scriptPos, twice, lastGoto,
          entities, spawnables, kept, idx, bound, pc, tfail, created,
          start, visited, cb, run, addedTick, runsTick, polls, passed, life,
          map, lookup, assets, sprites, sheets, sfail, lastLoad,
          factory, gpc, gents, gqueue, gkept, gidx, gbound, focus, camera,
          gfail, ticks, calls, blend, hist, input, upd,
         astates, apc, trans, window, status, call, amade, afail>>

----------------------------------------------------------------------------
(* Floating point *)

RECURSIVE Pow2(_)
Pow2(n) == IF n = 0 THEN 1 ELSE 2 * Pow2(n - 1)

\* 1.0 in units.
Unit == Pow2(FracBits)

\* Number of bits of a natural number.
RECURSIVE BitLen(_)
BitLen(n) == IF n = 0 THEN 0 ELSE 1 + BitLen(n \div 2)

\* The spacing of the representable values around n: 2^(BitLen(n) - MantBits),
\* and 1 below 2^MantBits.
RECURSIVE Spacing(_)
Spacing(n) == IF n < Pow2(MantBits) THEN 1 ELSE 2 * Spacing(n \div 2)

\* A value that the format holds exactly.
Representable(n) == n % Spacing(n) = 0

\* q * ulp or (q + 1) * ulp, whichever is nearer to num/den; ties to even.
RoundTo(num, s, ulp) ==
    IF 2 * (num % s) > s \/ (2 * (num % s) = s /\ (num \div s) % 2 = 1)
    THEN ((num \div s) + 1) * ulp
    ELSE (num \div s) * ulp

RoundWith(num, den, ulp) == RoundTo(num, ulp * den, ulp)

\* The exact value num/den (in units) rounded to the nearest representable
\* value, ties to even.
RoundQ(num, den) == RoundWith(num, den, Spacing(num \div den))

FAdd(a, b) == RoundQ(a + b, 1)
FSub(a, b) == RoundQ(a - b, 1)
\* n as f64 * x, for a usize n
FMulUsize(n, x) == RoundQ(n * x, 1)
FDiv(a, b) == RoundQ(a * Unit, b)
\* x as usize, for x >= 0
AsUsize(x) == x \div Unit

\* The f64 nearest to the decimal literal n/10.
FromTenths(n) == RoundQ(n * Unit, 10)

----------------------------------------------------------------------------
(* Sequences *)

\* Option::None of Sequence::get (frames are natural numbers)
NoFrame == -1

\* SpriteSequence { sprites, interval }: sprites is modelled by its length n,
\* and the k-th sprite by the number k.
SpriteDuration(seq) == FMulUsize(seq.n, seq.interval)

SpriteGet(seq, time) ==
    LET k == AsUsize(FDiv(time, seq.interval))
    IN  IF k < seq.n THEN k ELSE NoFrame

\* tests::TestSequence { id }
TestDuration == FromTenths(50)

TestGet(id, time) == id + AsUsize(time)

----------------------------------------------------------------------------
(* Policies: the implementations of AnimationMap *)

TestStates == {"Idle", "IdleAnim", "Running", "Stopping"}

\* enum TestState { Idle = 10, IdleAnim = 20, Running = 30, Stopping = 40 }
TestId(s) ==
    CASE s = "Idle" -> 10
      [] s = "IdleAnim" -> 20
      [] s = "Running" -> 30
      [] s = "Stopping" -> 40

CharacterStates ==
    {"IdleLeft", "IdleRight", "IdleAnim1", "IdleAnim2", "RunningLeft",
     "RunningRight", "ShootingLeft", "ShootingRight",
     "ReversingLeftToRight", "ReversingRightToLeft"}

None == "NoState"

\* TestMap::initial_states
TestInitialStates == {<<"Idle", "Idle", "IdleAnim">>}

\* TestMap::transition_to; the arms of the match are tried in order.
TestTransitionTo(current, other) ==
    IF current = "Running" /\ other = "Idle" THEN {<<"Stopping", "Idle">>}
    ELSE IF other # None THEN {<<other>>}
    ELSE IF current = "Running" THEN {<<"Running">>}
    ELSE {<<"Idle", "Idle", "IdleAnim">>}

\* CharacterMap::idle: thread_rng().gen::<bool>() picks the fidget, so the
\* result is one of two lists.
CharIdle(right) ==
    LET st == IF right THEN "IdleRight" ELSE "IdleLeft"
    IN  {<<st, st, st, st, st, a>> : a \in {"IdleAnim1", "IdleAnim2"}}

\* CharacterMap::initial_states
CharInitialStates == CharIdle(TRUE)

\* CharacterMap::transition_to with the default arm alone for an exhausted
\* list: every state falls back to idle-right.
CharTransitionDefault(current, other) ==
    IF current = "RunningLeft" /\ other = "RunningRight"
        THEN {<<"ReversingLeftToRight", "RunningRight">>}
    ELSE IF other = "IdleLeft" THEN CharIdle(FALSE)
    ELSE IF other = "IdleRight" THEN CharIdle(TRUE)
    ELSE IF other # None THEN {<<other>>}
    ELSE CharIdle(TRUE)

\* CharacterMap::transition_to with the default arm falling back to the
\* idle list of the left.
CharTransitionLeft(current, other) ==
    IF current = "RunningLeft" /\ other = "RunningRight"
        THEN {<<"ReversingLeftToRight", "RunningRight">>}
    ELSE IF other = "IdleLeft" \/ (current = "IdleLeft" /\ other = None)
        THEN CharIdle(FALSE)
    ELSE IF other = "IdleRight" \/ (current = "IdleRight" /\ other = None)
        THEN CharIdle(TRUE)
    ELSE IF current = "ShootingLeft" /\ other = None THEN CharIdle(FALSE)
    ELSE IF current = "ShootingRight" /\ other = None THEN CharIdle(TRUE)
    ELSE IF current = "RunningLeft" /\ other = None THEN {<<"RunningLeft">>}
    ELSE IF current = "RunningRight" /\ other = None THEN {<<"RunningRight">>}
    ELSE IF other # None THEN {<<other>>}
    ELSE CharIdle(FALSE)

\* CharacterMap::transition_to; the arms of the match are tried in order.
CharTransitionTo(current, other) ==
    IF current = "RunningLeft" /\ other = "RunningRight"
        THEN {<<"ReversingLeftToRight", "RunningRight">>}
    ELSE IF other = "IdleLeft" \/ (current = "IdleLeft" /\ other = None)
        THEN CharIdle(FALSE)
    ELSE IF other = "IdleRight" \/ (current = "IdleRight" /\ other = None)
        THEN CharIdle(TRUE)
    ELSE IF current = "ShootingLeft" /\ other = None THEN CharIdle(FALSE)
    ELSE IF current = "ShootingRight" /\ other = None THEN CharIdle(TRUE)
    ELSE IF current = "RunningLeft" /\ other = None THEN {<<"RunningLeft">>}
    ELSE IF current = "RunningRight" /\ other = None THEN {<<"RunningRight">>}
    ELSE IF other # None THEN {<<other>>}
    ELSE CharIdle(TRUE)

\* CharacterMap::sequence: resolves a state to its sequence, here the entry
\* of CharacterMap.sequences.
CharSequence(m, state) == m.sequences[state]

\* AnimationMap::initial_states, transition_to: the sets of lists a call
\* may return.  Another implementation of the trait ("OtherMap") returns the
\* lists it holds, over the states and the sequences of the tests.
InitialStates(m) ==
    IF m.kind = "TestMap" THEN TestInitialStates
    ELSE IF m.kind = "CharacterMap" THEN CharInitialStates
    ELSE {m.initial}

TransitionTo(m, current, other) ==
    IF m.kind = "TestMap" THEN TestTransitionTo(current, other)
    ELSE IF m.kind = "CharacterMap" THEN CharTransitionTo(current, other)
    ELSE {m.next}

StatesOf(m) == IF m.kind = "CharacterMap" THEN CharacterStates ELSE TestStates

\* Sequence::duration of AnimationMap::sequence(state)
Duration(m, state) ==
    IF m.kind = "CharacterMap" THEN SpriteDuration(CharSequence(m, state))
    ELSE TestDuration

\* Sequence::get of AnimationMap::sequence(state)
SequenceGet(m, state, time) ==
    IF m.kind = "CharacterMap" THEN SpriteGet(CharSequence(m, state), time)
    ELSE TestGet(TestId(state), time)

----------------------------------------------------------------------------
(* Animation *)

Anim(states, state_idx, sequence_time) ==
    [states |-> states, state_idx |-> state_idx,
     sequence_time |-> sequence_time]

\* The outcome of a call: the animation it leaves, and its panic if any.
Ok(a) == [a |-> a, fail |-> "none"]
Panic(a, msg) == [a |-> a, fail |-> msg]

\* Animation::new
AnimNew(m) == {Ok(Anim(l, 0, 0)) : l \in InitialStates(m)}

\* Animation::goto_state without the reset of sequence_time.
GotoStateKeepTime(m, a, state) ==
    {Ok(Anim(l, 0, a.sequence_time)) : l \in TransitionTo(m, a.states[1], state)}

\* goto_state taking the state that is being played as the current one.
GotoCurrentPlayed(a) == a.states[a.state_idx + 1]

\* Animation::goto_state, line 78: let current = self.states[0]
GotoCurrent(a) == a.states[1]

\* Animation::goto_state
GotoState(m, a, state) ==
    IF Len(a.states) = 0 THEN {Panic(a, "index out of bounds")}
    ELSE LET current == GotoCurrent(a)
         IN  {IF l = <<>>
              THEN Panic([a EXCEPT !.states = l], "assertion failed")
              ELSE Ok(Anim(l, 0, 0)) : l \in TransitionTo(m, current, state)}

\* Animation::update with the time of the sequence that ended dropped
\* instead of carried into the next sequence.
RECURSIVE UpdateLoopNoCarry(_, _)
UpdateLoopNoCarry(m, a) ==
    LET current_state == a.states[a.state_idx + 1]
        duration == Duration(m, current_state)
    IN  IF ~(a.sequence_time >= duration) THEN {Ok(a)}
        ELSE LET next == a.state_idx + 1
             IN  IF next >= Len(a.states)
                 THEN UNION {UpdateLoopNoCarry(m, Anim(l, 0, 0))
                             : l \in TransitionTo(m, current_state, None)}
                 ELSE UpdateLoopNoCarry(m, Anim(a.states, next, 0))

\* Animation::update with an if in place of the while: at most one
\* transition per call.
UpdateLoopOnce(m, a) ==
    LET current_state == a.states[a.state_idx + 1]
        duration == Duration(m, current_state)
    IN  IF ~(a.sequence_time >= duration) THEN {Ok(a)}
        ELSE LET time == FSub(a.sequence_time, duration)
                 next == a.state_idx + 1
             IN  IF next >= Len(a.states)
                 THEN {Ok(Anim(l, 0, time))
                       : l \in TransitionTo(m, current_state, None)}
                 ELSE {Ok(Anim(a.states, next, time))}

\* The while loop of Animation::update; current_state is
\* a.states[a.state_idx] whenever the loop condition is evaluated.
RECURSIVE UpdateLoop(_, _)
UpdateLoop(m, a) ==
    LET current_state == a.states[a.state_idx + 1]
        duration == Duration(m, current_state)
    IN  IF ~(a.sequence_time >= duration) THEN {Ok(a)}
        ELSE LET time == FSub(a.sequence_time, duration)
                 next == a.state_idx + 1
             IN  IF next >= Len(a.states)
                 THEN UNION {IF l = <<>>
                             THEN {Panic(Anim(l, next, time), "assertion failed")}
                             ELSE UpdateLoop(m, Anim(l, 0, time))
                             : l \in TransitionTo(m, current_state, None)}
                 ELSE UpdateLoop(m, Anim(a.states, next, time))

\* Animation::update
Update(m, a, dt) ==
    IF ~(a.state_idx < Len(a.states))
    THEN {Panic(a, "Animation has empty states vec")}
    ELSE UpdateLoop(m, [a EXCEPT !.sequence_time = FAdd(a.sequence_time, dt)])

\* Animation::get: the frame, or NoFrame when get panics.
Get(m, a) ==
    IF ~(a.state_idx < Len(a.states)) THEN NoFrame
    ELSE SequenceGet(m, a.states[a.state_idx + 1], a.sequence_time)

\* Whether Animation::update(dt) computes every sum and difference without
\* rounding (for a policy whose transition_to returns one list).
RECURSIVE LoopExact(_, _)
LoopExact(m, a) ==
    LET current_state == a.states[a.state_idx + 1]
        duration == Duration(m, current_state)
    IN  IF ~(a.sequence_time >= duration) THEN TRUE
        ELSE /\ Representable(a.sequence_time - duration)
             /\ LET time == a.sequence_time - duration
                    next == a.state_idx + 1
                IN  IF next >= Len(a.states)
                    THEN \A l \in TransitionTo(m, current_state, None) :
                             LoopExact(m, Anim(l, 0, time))
                    ELSE LoopExact(m, Anim(a.states, next, time))

UpdateExact(m, a, dt) ==
    /\ Representable(a.sequence_time + dt)
    /\ LoopExact(m, [a EXCEPT !.sequence_time = a.sequence_time + dt])

\* Animation::update, line 92: the condition of the while loop.
LoopCond(m, a) ==
    a.sequence_time >= Duration(m, a.states[a.state_idx + 1])

\* Animation::update, lines 93-106: one iteration of the while loop.
LoopBody(m, a) ==
    LET current_state == a.states[a.state_idx + 1]
        time == FSub(a.sequence_time, Duration(m, current_state))
        next == a.state_idx + 1
    IN  IF next >= Len(a.states)
        THEN {IF l = <<>>
              THEN Panic(Anim(l, next, time), "assertion failed")
              ELSE Ok(Anim(l, 0, time))
              : l \in TransitionTo(m, current_state, None)}
        ELSE {Ok(Anim(a.states, next, time))}

----------------------------------------------------------------------------
(* World, entities and spawnables *)

\* The implementations of EntityLogic.
Logics == {"Spawn", "Character"}

NoLogic == "NoLogic"

\* The logics the queued spawnables hand to the entities they create
\* (Game::new queues a Character).
SpawnedLogics == {"Character"}

\* Entity { physics, logic, sprite }, with an id to tell entities apart.
Entity(id, logic) == [id |-> id, logic |-> logic]

NoEntity == Entity(0, NoLogic)

\* SimpleSpawn { entity_logic }
SimpleSpawn(sid, logic) ==
    [sid |-> sid, kind |-> "SimpleSpawn", entity_logic |-> logic]

\* Any other implementation of the trait Spawnable: what spawn returns is
\* up to the implementation.
OtherSpawnable(sid) ==
    [sid |-> sid, kind |-> "Other", entity_logic |-> NoLogic]

\* The (keep, spawned) pairs an implementation of Spawnable::spawn may return.
Answers == [keep : BOOLEAN, spawned : SpawnedLogics \cup {NoLogic}]

\* SimpleSpawn::spawn handing out a copy of its logic and keeping it.
SimpleSpawnAgain(sp) ==
    [keep |-> FALSE, spawned |-> sp.entity_logic, self |-> sp]

\* SimpleSpawn::spawn: (false, self.entity_logic.take().map(...)); the
\* spawnable is left empty.
SimpleSpawnSpawn(sp) ==
    [keep |-> FALSE, spawned |-> sp.entity_logic,
     self |-> [sp EXCEPT !.entity_logic = NoLogic]]

\* spawnable.spawn(&entity.pos), where answer is what an implementation other
\* than SimpleSpawn returns.
Spawn(sp, answer) ==
    IF sp.kind = "SimpleSpawn" THEN SimpleSpawnSpawn(sp)
    ELSE [keep |-> answer.keep, spawned |-> answer.spawned, self |-> sp]

\* The closure of filter_map keeping every spawnable it polls, whatever
\* keep says.
SpawnVisitKeepAll(acc, ans, sp) ==
    [spawned_one |-> ans.spawned # NoLogic,
     out    |-> Append(acc.out, ans.self),
     pushed |-> IF ans.spawned # NoLogic
                THEN Append(acc.pushed, ans.spawned) ELSE acc.pushed,
     polled |-> Append(acc.polled, sp.sid),
     given  |-> Append(acc.given, [keep |-> ans.keep, spawned |-> ans.spawned])]

\* The closure of filter_map polling a spawnable again when it asks to be
\* kept without having created an entity.
SpawnVisitRetry(acc, ans, sp) ==
    [spawned_one |-> ans.spawned # NoLogic,
     out    |-> IF ans.keep THEN Append(acc.out, ans.self) ELSE acc.out,
     pushed |-> IF ans.spawned # NoLogic
                THEN Append(acc.pushed, ans.spawned) ELSE acc.pushed,
     polled |-> IF ans.keep /\ ans.spawned = NoLogic
                THEN acc.polled \o <<sp.sid, sp.sid>>
                ELSE Append(acc.polled, sp.sid),
     given  |-> Append(acc.given, [keep |-> ans.keep, spawned |-> ans.spawned])]

\* The closure of filter_map never setting spawned_one.
SpawnVisitNoMark(acc, ans, sp) ==
    [spawned_one |-> FALSE,
     out    |-> IF ans.keep THEN Append(acc.out, ans.self) ELSE acc.out,
     pushed |-> IF ans.spawned # NoLogic
                THEN Append(acc.pushed, ans.spawned) ELSE acc.pushed,
     polled |-> Append(acc.polled, sp.sid),
     given  |-> Append(acc.given, [keep |-> ans.keep, spawned |-> ans.spawned])]

\* Spawn::update, the closure of filter_map after spawnable.spawn returned
\* ans: the state of the loop is [spawned_one, out, pushed, polled, given].
SpawnVisit(acc, ans, sp) ==
    [spawned_one |-> ans.spawned # NoLogic,
     out    |-> IF ans.keep THEN Append(acc.out, ans.self) ELSE acc.out,
     pushed |-> IF ans.spawned # NoLogic
                THEN Append(acc.pushed, ans.spawned) ELSE acc.pushed,
     polled |-> Append(acc.polled, sp.sid),
     given  |-> Append(acc.given, [keep |-> ans.keep, spawned |-> ans.spawned])]

\* Spawn::update, the closure of filter_map when spawned_one is set: the
\* spawnable is passed through.
SpawnPass(acc, sp) == [acc EXCEPT !.out = Append(acc.out, sp)]

\* The closure of filter_map without the test of spawned_one.
SpawnStepNoFlag(acc, sp, answer) == SpawnVisit(acc, Spawn(sp, answer), sp)

\* Spawn::update, the closure of filter_map for one spawnable.
SpawnStep(acc, sp, answer) ==
    IF acc.spawned_one THEN SpawnPass(acc, sp)
    ELSE SpawnVisit(acc, Spawn(sp, answer), sp)

\* Spawn::update: into_iter().filter_map(...).collect() from the j-th
\* spawnable of the queue on.
RECURSIVE SpawnFilter(_, _, _, _)
SpawnFilter(queue, answers, j, acc) ==
    IF j > Len(queue) THEN acc
    ELSE SpawnFilter(queue, answers, j + 1,
                     SpawnStep(acc, queue[j], answers[j]))

SpawnStart ==
    [spawned_one |-> FALSE, out |-> <<>>, pushed |-> <<>>, polled |-> <<>>,
     given |-> <<>>]

NoRun ==
    [ran |-> FALSE, before |-> <<>>, given |-> <<>>, polled |-> <<>>,
     added |-> 0, after |-> <<>>]

\* The entities world.entities.push receives get the next ids.
RECURSIVE Pushed(_, _, _)
Pushed(rest, logics, next) ==
    IF logics = <<>> THEN rest
    ELSE Pushed(Append(rest, Entity(next, Head(logics))), Tail(logics), next + 1)

\* Spawn::update(entity, dt, world): what it leaves of world.entities (the
\* rest) and world.spawnables, and the record of the run.
SpawnUpdate(rest, queue, answers, next) ==
    LET r == SpawnFilter(queue, answers, 1, SpawnStart)
    IN  [entities   |-> Pushed(rest, r.pushed, next),
         spawnables |-> r.out,
         run |-> [ran |-> TRUE, before |-> queue, given |-> r.given,
                  polled |-> r.polled, added |-> Len(r.pushed),
                  after |-> r.out]]

\* Character::update leaves world.entities and world.spawnables alone.
CharacterUpdate(rest, queue) ==
    [entities |-> rest, spawnables |-> queue, run |-> NoRun]

\* entity.logic.update(..., &mut world_view, ...): the closure Game::update
\* hands to one_rest_split_iter.
EntityUpdate(entity, rest, queue, answers, next) ==
    IF entity.logic = "Spawn" THEN SpawnUpdate(rest, queue, answers, next)
    ELSE CharacterUpdate(rest, queue)

\* A copy of vec[i] taken in place of the swap.
CopyKept(vec, i, k) == [vec |-> vec, kept |-> vec[i + 1]]

\* one_rest_split_iter: swap(&mut vec[i], &mut kept), as [vec, kept]
SwapKept(vec, i, k) ==
    [vec |-> [vec EXCEPT ![i + 1] = k], kept |-> vec[i + 1]]

\* The range of the loop ending one short.
RangeEndShort(vec) == IF Len(vec) = 0 THEN 0 ELSE Len(vec) - 1

\* one_rest_split_iter: the end of the range 0..vec.len()
RangeEnd(vec) == Len(vec)

\* one_rest_split_iter: vec.remove(0), as [vec, kept]
RemoveFirst(vec) == [vec |-> Tail(vec), kept |-> Head(vec)]

\* one_rest_split_iter with an insertion at the head in place of the push.
PushKeptFront(vec, k) == <<k>> \o vec

\* one_rest_split_iter: vec.push(kept)
PushKept(vec, k) == Append(vec, k)

Ids(seq) == [j \in 1..Len(seq) |-> seq[j].id]

Range(seq) == {seq[j] : j \in 1..Len(seq)}

NoCallback == [active |-> 0, rest |-> <<>>, count |-> 0]

\* The life of an entity that is not followed.
NoLife == [turn |-> 0, age |-> 0, seen |-> -1]

\* The state of the world part while the animation is exercised.
TickParked ==
    /\ entities = <<>> /\ spawnables = <<>> /\ kept = NoEntity
    /\ idx = 0 /\ bound = 0 /\ pc = "ready" /\ tfail = "none"
    /\ created = 0 /\ start = <<>> /\ visited = <<>> /\ cb = NoCallback
    /\ run = NoRun /\ addedTick = 0 /\ runsTick = 0 /\ polls = <<>>
    /\ passed = FALSE /\ life = <<>>

----------------------------------------------------------------------------
(* Map: world.rs *)

\* The tile types a map refers to (Map.tiletypes), by name.
Palette == <<"Wall", "Background">>

NoTile == "None"
OutOfBounds == "index out of bounds"

\* Map::tile with the row taken as height tiles long.
TileByHeight(m, x, y) ==
    IF x >= 0 /\ m.width > x /\ y >= 0 /\ m.height > y
    THEN LET i == y * m.height + x
         IN  IF i >= Len(m.tiles) THEN OutOfBounds
             ELSE IF m.tiles[i + 1] >= Len(m.tiletypes) THEN OutOfBounds
             ELSE m.tiletypes[m.tiles[i + 1] + 1]
    ELSE NoTile

\* Map::tile; indexing a vector at or after its length is a panic.
Tile(m, x, y) ==
    IF x >= 0 /\ m.width > x /\ y >= 0 /\ m.height > y
    THEN LET i == y * m.width + x
         IN  IF i >= Len(m.tiles) THEN OutOfBounds
             ELSE IF m.tiles[i + 1] >= Len(m.tiletypes) THEN OutOfBounds
             ELSE m.tiletypes[m.tiles[i + 1] + 1]
    ELSE NoTile

\* x as i32, for an f64 x counted in units of 2^-FracBits: the fraction is
\* dropped, which rounds toward zero.
AsI32(x) == IF x >= 0 THEN x \div Unit ELSE 0 - ((0 - x) \div Unit)

\* x.floor(), as an integer: the largest integer not above x.
Floor(x) ==
    IF x >= 0 THEN x \div Unit ELSE 0 - (((0 - x) + Unit - 1) \div Unit)

\* Map::tilef
Tilef(m, x, y) == Tile(m, AsI32(x), AsI32(y))

NoLookup == [kind |-> "none", x |-> 0, y |-> 0, result |-> NoTile]

\* The maps of one or two rows of up to MaxSide tiles, every tile an index
\* of the palette, as MapFactory::create builds them from a factory such as
\* MapFactory::example.
Maps ==
    UNION {{[width |-> w, height |-> h, tiletypes |-> Palette, tiles |-> t]
            : t \in [1..(w * h) -> 0..(Len(Palette) - 1)]}
           : <<w, h>> \in (1..MaxSide) \X (1..2)}

MapParked ==
    /\ map = [width |-> 1, height |-> 1, tiletypes |-> Palette, tiles |-> <<0>>]
    /\ lookup = NoLookup

----------------------------------------------------------------------------
(* SpriteManager: sprites.rs *)

\* Names of sprite sheets the game loads.
Names == {"map/castleCenter.png", "map/bg.png", "alien/green__0000_idle_1.png"}

NoSheet == 0

BorrowMutError == "already borrowed: BorrowMutError"
UnwrapErr == "called Result::unwrap() on an Err value"

\* Weak::upgrade: the sheet, when a strong handle to it is alive.
Upgrade(alive, sheet) == IF alive[sheet] > 0 THEN sheet ELSE NoSheet

\* The outcome of a call of load: the map and the handles after it, the
\* sheet returned (NoSheet on a panic), whether from_file was called.
Loaded4(map4, alive, result, read, fail) ==
    [sprites |-> map4, sheets |-> alive, result |-> result, read |-> read,
     fail |-> fail]

\* SpriteManager::load, from line 78 on: read the sheet, cache a weak
\* reference, return the strong handle.
LoadFresh(readable, map4, alive, name) ==
    IF name \notin readable
    THEN Loaded4(map4, alive, NoSheet, TRUE, UnwrapErr)
    ELSE LET sheet == Len(alive) + 1
         IN  Loaded4([map4 EXCEPT ![name] = sheet], Append(alive, 1), sheet,
                     TRUE, "none")

\* SpriteManager::load without the lookup in the map.
LoadNoCache(readable, map4, alive, name) ==
    LoadFresh(readable, map4, alive, name)

\* SpriteManager::load.  The Ref of self.sprites.borrow() lives to the end
\* of the if let, so the borrow_mut() of its else branch finds the RefCell
\* borrowed.
Load(readable, map4, alive, name) ==
    IF map4[name] # NoSheet
    THEN IF Upgrade(alive, map4[name]) # NoSheet
         THEN Loaded4(map4, [alive EXCEPT ![map4[name]] = @ + 1],
                      map4[name], FALSE, "none")
         ELSE Loaded4(map4, alive, NoSheet, FALSE, BorrowMutError)
    ELSE LoadFresh(readable, map4, alive, name)

NoLoad ==
    [done |-> FALSE, name |-> "", result |-> NoSheet, read |-> FALSE,
     live |-> FALSE, dead |-> FALSE, prior |-> NoSheet]

SpriteParked ==
    /\ assets = Names
    /\ sprites = [n \in Names |-> NoSheet]
    /\ sheets = <<>>
    /\ sfail = "none"
    /\ lastLoad = NoLoad

----------------------------------------------------------------------------
(* f32 arithmetic of the camera: game/mod.rs *)

\* Positions, sizes and rates are f32 in the source; they are modelled in
\* the same reduced format as f64, with a sign.
Abs(x) == IF x < 0 THEN 0 - x ELSE x

\* num / den (den > 0) rounded to the nearest representable value.
SRound(num, den) ==
    IF num >= 0 THEN RoundQ(num, den) ELSE 0 - RoundQ(0 - num, den)

\* num / den is representable: the operation does not round.
ExactQ(num, den) == num % den = 0 /\ Representable(Abs(num) \div den)

F32Add(a, b) == SRound(a + b, 1)
F32Sub(a, b) == SRound(a - b, 1)
F32Mul(a, b) == SRound(a * b, Unit)
F32Div(a, b) ==
    IF b > 0 THEN SRound(a * Unit, b) ELSE SRound(0 - (a * Unit), 0 - b)
F32Max(a, b) == IF a >= b THEN a ELSE b
F32Min(a, b) == IF a <= b THEN a ELSE b

\* A whole number of tiles as an f32.
Whole(n) == n * Unit

CAMERA_MARGIN_X == 5
CAMERA_MARGIN_Y == 5

NoFocus == [lo |-> <<>>, hi |-> <<>>]

\* WorldView::focus keeping only the last position.
FocusLast(old, pos) == [lo |-> pos, hi |-> pos]

\* WorldView::focus: the box after a call, from the box before it.
Focus(old, pos) ==
    IF old = NoFocus THEN [lo |-> pos, hi |-> pos]
    ELSE [lo |-> <<F32Min(old.lo[1], pos[1]), F32Min(old.lo[2], pos[2])>>,
          hi |-> <<F32Max(old.hi[1], pos[1]), F32Max(old.hi[2], pos[2])>>]

\* Game::update, lines 238-247: the camera position and size that show the
\* box with its margins, as [pos, size].
Desired(ratio, box) ==
    LET ax == F32Sub(box.lo[1], Whole(CAMERA_MARGIN_X))
        ay == F32Sub(box.lo[2], Whole(CAMERA_MARGIN_Y))
        bx == F32Add(box.hi[1], Whole(CAMERA_MARGIN_X))
        by == F32Add(box.hi[2], Whole(CAMERA_MARGIN_Y))
        size == F32Max(F32Sub(bx, ax), F32Div(F32Sub(by, ay), ratio))
    IN  [pos |-> <<F32Div(F32Sub(F32Add(ax, bx), size), Whole(2)),
                   F32Div(F32Sub(F32Add(ay, by), F32Mul(size, ratio)),
                          Whole(2))>>,
         size |-> size]

\* The blend without the factor of the old value: old + want * update_rate
SmoothNoDecay(old, want, rate) == F32Add(old, F32Mul(want, rate))

\* old * (1.0 - update_rate) + want * update_rate
Smooth(old, want, rate) ==
    F32Add(F32Mul(old, F32Sub(Unit, rate)), F32Mul(want, rate))

\* None of the four operations of Smooth rounds.
SmoothExact(old, want, rate) ==
    /\ ExactQ(Unit - rate, 1)
    /\ ExactQ(old * (Unit - rate), Unit)
    /\ ExactQ(want * rate, Unit)
    /\ ExactQ(old * (Unit - rate) + want * rate, Unit)

\* Game::update, lines 237-253, moving the camera to the middle of the map
\* when no entity asked for focus.
CameraAfterDefault(cam, box) ==
    LET want == Desired(cam.aspect_ratio,
                        IF box = NoFocus
                        THEN [lo |-> <<0, 0>>, hi |-> <<0, 0>>] ELSE box)
    IN  [cam EXCEPT
            !.pos = <<Smooth(cam.pos[1], want.pos[1], cam.update_rate),
                      Smooth(cam.pos[2], want.pos[2], cam.update_rate)>>,
            !.size = Smooth(cam.size, want.size, cam.update_rate)]

\* Game::update, lines 237-253: the camera after the pass.
CameraAfter(cam, box) ==
    IF box = NoFocus THEN cam
    ELSE LET want == Desired(cam.aspect_ratio, box)
         IN  [cam EXCEPT
                 !.pos = <<Smooth(cam.pos[1], want.pos[1], cam.update_rate),
                           Smooth(cam.pos[2], want.pos[2], cam.update_rate)>>,
                 !.size = Smooth(cam.size, want.size, cam.update_rate)]

----------------------------------------------------------------------------
(* MapFactory::create, Game::new and Game::update: world.rs, game/mod.rs *)

TypeIds == {"f.spawn", "f.other"}

\* Positions of entity definitions and of characters, in tiles.
Positions == {<<Whole(4), Whole(1)>>, <<Whole(2), Whole(3)>>}

ZeroVec == <<0, 0>>

\* height / width of the window.
Ratios == {Unit, (3 * Unit) \div 4}

\* Entity { physics: EntityPhysics { pos, speed }, logic, sprite }
\* sprite tells Some from None; alive is what the last update of the logic
\* returned (true before any).
GEntity(id, logic, pos, speed) ==
    [id |-> id, logic |-> logic, pos |-> pos, speed |-> speed,
     sprite |-> FALSE, alive |-> TRUE]

NoGEntity == GEntity(0, NoLogic, ZeroVec, ZeroVec)

\* EntityDefinition::create placing the entity by the seed.
EntityDefinitionCreateSeeded(def, id, seed) ==
    IF def.type_id = "f.spawn"
    THEN <<GEntity(id, "Spawn",
                   <<def.position[1] + Whole(seed), def.position[2]>>, ZeroVec)>>
    ELSE <<>>

\* EntityDefinition::create(seed): Some(entity) as <<entity>>, None as <<>>.
EntityDefinitionCreate(def, id, seed) ==
    IF def.type_id = "f.spawn"
    THEN <<GEntity(id, "Spawn", def.position, ZeroVec)>>
    ELSE <<>>

\* The entities of the definitions before the first unknown type_id.
RECURSIVE CreateUntilUnknown(_, _, _, _)
CreateUntilUnknown(defs, seed, j, acc) ==
    IF j > Len(defs) THEN acc
    ELSE LET e == EntityDefinitionCreate(defs[j], Len(acc) + 1, seed)
         IN  IF e = <<>> THEN acc
             ELSE CreateUntilUnknown(defs, seed, j + 1, acc \o e)

\* MapFactory::create, line 301:
\* self.entities.iter().filter_map(|e| e.create(seed)).collect(), from the
\* j-th definition on.
RECURSIVE CreateEntities(_, _, _, _)
CreateEntities(defs, seed, j, acc) ==
    IF j > Len(defs) THEN acc
    ELSE CreateEntities(defs, seed, j + 1,
                        acc \o EntityDefinitionCreate(defs[j], Len(acc) + 1,
                                                      seed))

\* MapFactory::create(resources, seed): the World, as [map, entities,
\* spawnables].  The factory is well formed: tiles holds width * height
\* indices of its tile types, and no tile type has a tile entity.
MapFactoryCreate(f, seed) ==
    [map |-> [width |-> f.width, height |-> f.height,
              tiletypes |-> f.tiletypes,
              tiles |-> f.tiles],
     entities |-> CreateEntities(f.entities, seed, 1, <<>>),
     spawnables |-> <<>>]

\* The seed Game::new gives to MapFactory::create.
GameSeed == 42

\* A factory that is not looked at.
NoFactory ==
    [nb_players |-> 1, entities |-> <<>>, width |-> 1, height |-> 1,
     tiletypes |-> Palette, tiles |-> <<0>>]

NoPlayers == "Can't play on map meant for 0 players"

\* Game::new without the check of nb_players.
NeverTooFew(f) == FALSE

\* Game::new, line 167: map_factory.nb_players < 1
TooFewPlayers(f) == f.nb_players < 1

\* The camera before the first update, with the update rate of play.
FirstCameraSlow(ratio) ==
    [aspect_ratio |-> ratio, pos |-> ZeroVec, size |-> Whole(10),
     update_rate |-> FromTenths(1)]

\* Game::new, lines 181-186: the camera before the first update.
FirstCamera(ratio) ==
    [aspect_ratio |-> ratio, pos |-> ZeroVec, size |-> Whole(10),
     update_rate |-> Unit]

\* Game::new, line 192: the update rate of the camera after the first update.
PlayRate == FromTenths(1)

\* Character::update, lines 56-108: the physics of the character after the
\* call, and its sprite.  Input, map and dt are not modelled: the character
\* stays, or it ends at another position with the speed that took it there.
CharacterMoves(e) ==
    {[e EXCEPT !.speed = ZeroVec, !.sprite = TRUE]}
    \cup {[e EXCEPT !.pos = p,
                    !.speed = <<F32Sub(p[1], e.pos[1]), F32Sub(p[2], e.pos[2])>>,
                    !.sprite = TRUE]
          : p \in Positions \ {e.pos}}

\* Spawn::update giving the position of the Spawn entity to every entity of
\* the world.
LocatedAll(ents, n, pos) ==
    [j \in 1..Len(ents) |-> GEntity(ents[j].id, ents[j].logic, pos, ZeroVec)]

\* SimpleSpawn::spawn, lines 138-146: the entities Spawn::update pushed get
\* the position of the Spawn entity, no speed.
Located(ents, n, pos) ==
    [j \in 1..Len(ents) |->
        IF j <= n THEN ents[j]
        ELSE GEntity(ents[j].id, ents[j].logic, pos, ZeroVec)]

\* What the queued SimpleSpawn are asked: they answer by themselves.
NoAnswers(queue) ==
    [j \in 1..Len(queue) |-> [keep |-> FALSE, spawned |-> NoLogic]]

\* The closure of Game::update removing the entity whose update returned
\* false.
ClosureDrops(entity, alive) == IF alive THEN entity ELSE NoGEntity

\* The closure of Game::update, lines 234-235: the value update returns is
\* dropped, the entity stays whatever it is.
ClosureKeeps(entity, alive) == [entity EXCEPT !.alive = alive]

RemoveEmpty == "removal index (is 0) should be < len (is 0)"

NoBlend ==
    [done |-> FALSE, before |-> FirstCamera(Unit), after |-> FirstCamera(Unit),
     want |-> [pos |-> ZeroVec, size |-> 0]]

GameParked ==
    /\ factory = NoFactory
    /\ gpc = "new" /\ gents = <<>> /\ gqueue = <<>> /\ gkept = NoGEntity
    /\ gidx = 0 /\ gbound = 0 /\ focus = NoFocus
    /\ camera = FirstCamera(Unit) /\ gfail = "none" /\ ticks = 0
    /\ calls = <<>> /\ blend = NoBlend

----------------------------------------------------------------------------
(* App and the stack of game states: main.rs *)

\* Largest number of game states made in a run.
MaxStates == 3

\* The implementations of GameState: those of the repository, and another
\* one that may ask for any transition.
StateKinds == {"Game", "PauseMenu", "Other"}

\* enum StateTransition; state is the kind of the boxed state of Replace
\* and Push.
Continue == [kind |-> "Continue", state |-> "none"]
End == [kind |-> "End", state |-> "none"]
Replace(k) == [kind |-> "Replace", state |-> k]
Push(k) == [kind |-> "Push", state |-> k]
Quit == [kind |-> "Quit", state |-> "none"]

Transitions ==
    {Continue, End, Quit} \cup {Replace(k) : k \in StateKinds}
    \cup {Push(k) : k \in StateKinds}

\* The events of the window: a press of Escape, another input, an update,
\* a render.
Events == {"press_escape", "input", "update", "render"}

\* What state.handle_event(&event, resources) may return.  Game pushes the
\* pause menu on Escape; the pause menu ends or quits when its button was
\* clicked, which any event may find.
HandleEventOf(kind, ev) ==
    IF kind = "Game"
    THEN IF ev = "press_escape" THEN {Push("PauseMenu")} ELSE {Continue}
    ELSE IF kind = "PauseMenu" THEN {End, Quit, Continue}
    ELSE Transitions

\* What state.update(dt) may return.
UpdateOf(kind) ==
    IF kind \in {"Game", "PauseMenu"} THEN {Continue} ELSE Transitions

\* handle_state returning whatever the state answered.
ReturnsAlways(t) == TRUE

\* handle_state, lines 126-132 and 137-143: the arm t of the match, taken by
\* every transition but Continue.
Returns(t) == t.kind # "Continue"

\* handle_state returning without state.pause(resources).
NotPaused(ops) == ops

\* handle_state, lines 129, 140, 149: state.pause(resources) before it
\* returns.
Paused(ops) == Append(ops, "pause")

\* handle_state, lines 124-147: the calls made on the state for one event,
\* he and up being what handle_event and update answer.  ret is the
\* position in ops of the call whose answer is returned (0: none, the loop
\* goes on), out is that answer.  draw_2d calls the closure, and so
\* state.draw, for a render event.
EventCalls(ev, he, up) ==
    IF Returns(he)
    THEN [ops |-> Paused(<<"handle_event">>), ret |-> 1, out |-> he]
    ELSE IF ev = "update" /\ Returns(up)
    THEN [ops |-> Paused(<<"handle_event", "update">>), ret |-> 2, out |-> up]
    ELSE [ops |-> <<"handle_event">>
                  \o (IF ev = "update" THEN <<"update">> ELSE <<>>)
                  \o (IF ev = "render" THEN <<"draw">> ELSE <<>>),
          ret |-> 0, out |-> Continue]

\* The number of calls of op among ops.
Count(ops, op) == Cardinality({j \in 1..Len(ops) : ops[j] = op})

\* The state of a game state after the calls ops.
StatusAfter(st, ops) ==
    IF Count(ops, "pause") > 0 THEN "paused"
    ELSE IF Count(ops, "resume") > 0 THEN "resumed"
    ELSE st

\* Game::resume and Game::pause, game/mod.rs lines 339-345: the cursor is
\* captured while the game runs.  Other states leave it alone.
CaptureAfter(kind, capture, ops) ==
    IF kind # "Game" THEN capture
    ELSE IF Count(ops, "pause") > 0 THEN FALSE
    ELSE IF Count(ops, "resume") > 0 THEN TRUE
    ELSE capture

\* App::run, lines 107-110, pushing the new state over the one it replaces.
ReplaceOver(stack, state) == Append(stack, state)

\* App::run, lines 107-110: Replace pops the top state and pushes the new
\* one.
ReplaceTop(stack, state) == Append(SubSeq(stack, 1, Len(stack) - 1), state)

NoCall == [id |-> 0, resumes |-> 0, pauses |-> 0, ops |-> <<>>, ret |-> 0]

ContinuePanic == "App::run() got Transition::Continue"

AppParked ==
    /\ astates = <<>> /\ apc = "done" /\ trans = Continue
    /\ window = [open |-> TRUE, capture |-> FALSE]
    /\ status = [j \in 1..MaxStates |-> "none"]
    /\ call = NoCall /\ amade = 0 /\ afail = "none"

----------------------------------------------------------------------------
(* PlayerInput and InputManager: input.rs *)

\* const INPUT_THRESHOLD: f32 = 0.8
INPUT_THRESHOLD == FromTenths(8)

\* PlayerInput::new
PlayerInputNew ==
    [d_right |-> FALSE, d_left |-> FALSE, d_up |-> FALSE, d_down |-> FALSE,
     d_jump |-> FALSE, a_x |-> 0, a_y |-> 0]

\* PlayerInput::da_input without the clamp.
DaInputNoClamp(a, d_neg, d_pos) ==
    F32Add(F32Add(a, IF d_neg THEN 0 - Unit ELSE 0), IF d_pos THEN Unit ELSE 0)

\* PlayerInput::da_input
DaInput(a, d_neg, d_pos) ==
    LET value == F32Add(F32Add(a, IF d_neg THEN 0 - Unit ELSE 0),
                        IF d_pos THEN Unit ELSE 0)
    IN  IF value < 0 - Unit THEN 0 - Unit
        ELSE IF value > Unit THEN Unit
        ELSE value

\* PlayerInput::x, y, jump
InputX(i) == DaInput(i.a_x, i.d_left, i.d_right)
InputY(i) == DaInput(i.a_y, i.d_down, i.d_up)
InputJump(i) == i.d_up \/ i.a_y > INPUT_THRESHOLD

Keys == {"Right", "Left", "Up", "Down", "Escape"}

\* InputManager::handle_event for a press or a release of a key.
HandleKey(i, key, pressed) ==
    IF key = "Right" THEN [i EXCEPT !.d_right = pressed]
    ELSE IF key = "Left" THEN [i EXCEPT !.d_left = pressed]
    ELSE IF key = "Up" THEN [i EXCEPT !.d_up = pressed]
    ELSE IF key = "Down" THEN [i EXCEPT !.d_down = pressed]
    ELSE i

\* No call was made on the animation yet.
NoHist ==
    [op |-> "none", state |-> None, dt |-> 0, before |-> Anim(<<>>, 0, 0),
     current |-> None, result |-> <<>>]

NoUpd == [pc |-> "idle", dt |-> 0, entry |-> Anim(<<>>, 0, 0), moved |-> FALSE]

LateParked ==
    hist = NoHist /\ input = PlayerInputNew /\ upd = NoUpd /\ AppParked

MoreParked == MapParked /\ SpriteParked /\ GameParked /\ LateParked

----------------------------------------------------------------------------
(* The calls made on an animation *)

\* Decimal literals (in tenths) and sub-frame steps (in units) used as dt.
DtTenths == {0, 1, 10, 30, 32, 80, 82, 92}
DtSet == {FromTenths(n) : n \in DtTenths} \cup {1, 2}
\* The dt of the double updates.
DtTwice == {FromTenths(n) : n \in {1, 30, 92}} \cup {1}

\* The sequences CharacterMap.sequences may hold: every state maps to a
\* SpriteSequence of 1..MaxSprites sprites.
Intervals == {Unit \div 2, Unit + 1}
SpriteSeqs == {[n |-> k, interval |-> i] : k \in 1..MaxSprites, i \in Intervals}

Policies ==
    {[kind |-> "TestMap"]}
    \cup {[kind |-> "CharacterMap", sequences |-> [s \in CharacterStates |-> q]]
          : q \in SpriteSeqs}

\* tests::test_animation: the calls after Animation::new, and the frames it
\* asserts (the first one right after new).
Script ==
    << [op |-> "update", arg |-> FromTenths(92)],
       [op |-> "update", arg |-> FromTenths(10)],
       [op |-> "update", arg |-> FromTenths(80)],
       [op |-> "update", arg |-> FromTenths(30)],
       [op |-> "goto_state", arg |-> "Running"],
       [op |-> "update", arg |-> FromTenths(82)],
       [op |-> "goto_state", arg |-> "Idle"],
       [op |-> "update", arg |-> FromTenths(32)],
       [op |-> "update", arg |-> FromTenths(30)] >>

Expected == <<10, 14, 20, 13, 11, 30, 33, 40, 43, 11>>

ScriptNext(pos, op, arg) ==
    IF pos >= 0 /\ pos < Len(Script) /\ Script[pos + 1].op = op
       /\ Script[pos + 1].arg = arg
    THEN pos + 1 ELSE -1

NoTwice == [done |-> FALSE, same |-> TRUE, exact |-> FALSE, crossed |-> FALSE]

NoGoto == [done |-> FALSE, state |-> None, current |-> None, mid |-> FALSE]

InitAnim ==
    /\ amap \in Policies
    /\ \E o \in AnimNew(amap) : anim = o.a /\ failure = o.fail
    /\ scriptPos = IF amap.kind = "TestMap" THEN 0 ELSE -1
    /\ twice = NoTwice
    /\ lastGoto = NoGoto
    /\ TickParked
    /\ MoreParked

\* let mut animation = Animation::new(map)
ANew ==
    /\ failure = "none"
    /\ \E o \in AnimNew(amap) : anim' = o.a /\ failure' = o.fail
    /\ scriptPos' = IF amap.kind = "TestMap" THEN 0 ELSE -1
    /\ twice' = NoTwice
    /\ lastGoto' = NoGoto
    /\ UNCHANGED <<amap, tickVars, moreVars>>

\* animation.goto_state(state)
AGoto(state) ==
    /\ failure = "none"
    /\ \E o \in GotoState(amap, anim, state) : anim' = o.a /\ failure' = o.fail
    /\ scriptPos' = ScriptNext(scriptPos, "goto_state", state)
    /\ twice' = NoTwice
    /\ lastGoto' = [done |-> TRUE, state |-> state,
                    current |-> IF Len(anim.states) = 0 THEN None
                                ELSE anim.states[1],
                    mid |-> anim.state_idx > 0 /\ anim.sequence_time > 0]
    /\ UNCHANGED <<amap, tickVars, moreVars>>

\* animation.update(dt)
AUpdate(dt) ==
    /\ failure = "none"
    /\ \E o \in Update(amap, anim, dt) : anim' = o.a /\ failure' = o.fail
    /\ scriptPos' = ScriptNext(scriptPos, "update", dt)
    /\ twice' = NoTwice
    /\ lastGoto' = NoGoto
    /\ UNCHANGED <<amap, tickVars, moreVars>>

\* animation.update(a); animation.update(b), compared with what
\* animation.update(a + b) would have left (for a deterministic policy).
AUpdateTwice(a, b) ==
    /\ failure = "none"
    /\ amap.kind = "TestMap"
    /\ \E o1 \in Update(amap, anim, a) :
         /\ o1.fail = "none"
         /\ \E o2 \in Update(amap, o1.a, b) :
              /\ anim' = o2.a
              /\ failure' = o2.fail
              /\ twice' = [done |-> TRUE,
                           same |-> Update(amap, anim, FAdd(a, b)) = {o2},
                           exact |-> /\ Representable(a + b)
                                     /\ UpdateExact(amap, anim, a)
                                     /\ UpdateExact(amap, o1.a, b)
                                     /\ UpdateExact(amap, anim, a + b),
                           crossed |-> /\ o1.a.state_idx # anim.state_idx
                                       /\ o2.a.state_idx # o1.a.state_idx]
    /\ scriptPos' = -1
    /\ lastGoto' = NoGoto
    /\ UNCHANGED <<amap, tickVars, moreVars>>

\* animation.get()
AGet ==
    /\ failure = "none"
    /\ failure' = IF Get(amap, anim) = NoFrame
                  THEN "Animation exceeded sequence length" ELSE "none"
    /\ UNCHANGED <<amap, anim, scriptPos, twice, lastGoto, tickVars, moreVars>>

NextAnim ==
    \/ ANew
    \/ \E s \in StatesOf(amap) : AGoto(s)
    \/ \E dt \in DtSet : AUpdate(dt)
    \/ \E a, b \in DtTwice : AUpdateTwice(a, b)
    \/ AGet

SpecAnim == InitAnim /\ [][NextAnim]_vars

----------------------------------------------------------------------------
(* Game::update: the update pass over the entities *)

\* The state of the animation part while the world is exercised.
AnimParked ==
    /\ amap = [kind |-> "TestMap"]
    /\ anim = Anim(<<"Idle", "Idle", "IdleAnim">>, 0, 0)
    /\ failure = "none" /\ scriptPos = -1 /\ twice = NoTwice
    /\ lastGoto = NoGoto

\* The worlds a run starts from: up to MaxInit entities of any logic, up to
\* MaxQueue spawnables of any kind.
InitEntities ==
    UNION {{[j \in 1..n |-> Entity(j, l[j])] : l \in [1..n -> Logics]}
           : n \in 0..MaxInit}

InitSpawnables ==
    UNION {{[j \in 1..n |-> IF k[j] = "Other" THEN OtherSpawnable(j)
                            ELSE SimpleSpawn(j, k[j])]
            : k \in [1..n -> SpawnedLogics \cup {"Other"}]}
           : n \in 0..MaxQueue}

\* The SimpleSpawn of the queue that still hold their logic: each will
\* create an entity when polled.
Loaded(queue) ==
    Cardinality({j \in 1..Len(queue) : queue[j].entity_logic # NoLogic})

InitTick ==
    /\ AnimParked
    /\ MoreParked
    /\ entities \in InitEntities
    /\ spawnables \in InitSpawnables
    /\ kept = NoEntity /\ idx = 0 /\ bound = 0 /\ pc = "ready"
    /\ tfail = "none"
    /\ created = Len(entities)
    /\ start = <<>> /\ visited = <<>> /\ cb = NoCallback /\ run = NoRun
    /\ addedTick = 0 /\ runsTick = 0
    /\ polls = [j \in 1..Len(spawnables) |-> 0]
    /\ passed = FALSE
    /\ life = [j \in 1..Len(entities) |-> NoLife]

Counted(base, polled) ==
    [j \in DOMAIN base |->
        base[j] + Cardinality({p \in 1..Len(polled) : polled[p] = j})]

\* Spawnables other than SimpleSpawn create entities only while the world
\* holds fewer than MaxEntities.
MaxEntities == MaxInit + 1

\* The answers the j-th spawnable of the queue may give when polled: a
\* SimpleSpawn answers by itself.
AnswersAt(queue, j) ==
    IF queue[j].kind = "SimpleSpawn"
    THEN {[keep |-> FALSE, spawned |-> NoLogic]}
    ELSE {a \in Answers :
            a.spawned # NoLogic => created + Loaded(queue) < MaxEntities}

\* The answers of the first j spawnables of the queue in one run.
RECURSIVE AnswersUpTo(_, _)
AnswersUpTo(queue, j) ==
    IF j = 0 THEN {<<>>}
    ELSE {Append(p, a) : p \in AnswersUpTo(queue, j - 1),
                         a \in AnswersAt(queue, j)}

\* The answers the spawnables may give to the entity that is updated.
AnswersFor(entity, queue) ==
    IF entity.logic = "Spawn" THEN AnswersUpTo(queue, Len(queue))
    ELSE {<<>>}

\* The range of the loop taken from the vector as it is before the first
\* call of f.
RangeVecBefore(before, after) == before

\* one_rest_split_iter: the vector the range 0..vec.len() is taken from is
\* the one the first call of f leaves.
RangeVec(before, after) == after

\* The record of the lives of the entities after a call of f on the entity
\* id that pushed n entities; first: the call is the first of its pass.
\* Only the lives of the pushed entities are followed, each until the pass
\* after the one it was pushed in is over.
LifeAfter(l, id, n, first) ==
    LET aged == IF first
                THEN [j \in DOMAIN l |->
                        IF l[j].turn = 0 \/ l[j].age = 1 THEN NoLife
                        ELSE [l[j] EXCEPT !.age = 1]]
                ELSE l
        seen == [aged EXCEPT ![id].seen = IF aged[id].turn # 0 /\ @ = -1
                                          THEN aged[id].age ELSE @]
    IN  seen \o [j \in 1..n |->
                    [turn |-> IF first THEN 1 ELSE 2, age |-> 0, seen |-> -1]]

\* The call f(&mut kept, &mut vec) of one_rest_split_iter with the closure
\* of Game::update, and what it is recorded to have done.
Callback(active, rest) ==
    \E answers \in AnswersFor(active, spawnables) :
        LET o == EntityUpdate(active, rest, spawnables, answers, created + 1)
        IN  /\ entities' = o.entities
            /\ life' = LifeAfter(life, active.id, o.run.added, pc = "ready")
            /\ spawnables' = o.spawnables
            /\ kept' = active
            /\ created' = created + o.run.added
            /\ cb' = [active |-> active.id, rest |-> Ids(rest),
                      count |-> created]
            /\ run' = IF o.run.ran THEN o.run ELSE run
            /\ IF pc = "ready"
               THEN /\ visited' = <<active.id>>
                    /\ addedTick' = o.run.added
                    /\ runsTick' = IF o.run.ran THEN 1 ELSE 0
                    /\ polls' = Counted([j \in DOMAIN polls |-> 0], o.run.polled)
                    /\ bound' = RangeEnd(RangeVec(rest, o.entities))
               ELSE /\ visited' = Append(visited, active.id)
                    /\ addedTick' = addedTick + o.run.added
                    /\ runsTick' = runsTick + IF o.run.ran THEN 1 ELSE 0
                    /\ polls' = Counted(polls, o.run.polled)
                    /\ bound' = bound

\* Game::update up to the first call of the closure: one_rest_split_iter
\* removes the first entity and calls f on it.
PassFirst ==
    /\ pc = "ready" /\ tfail = "none"
    /\ entities # <<>>
    /\ LET r == RemoveFirst(entities)
       IN  Callback(r.kept, r.vec)
    /\ start' = Ids(entities)
    /\ idx' = 0
    /\ pc' = "loop"
    /\ UNCHANGED <<tfail, passed, animVars, moreVars>>

\* vec.remove(0) panics on an empty vector.
PassEmpty ==
    /\ pc = "ready" /\ tfail = "none"
    /\ entities = <<>>
    /\ tfail' = "removal index (is 0) should be < len (is 0)"
    /\ UNCHANGED <<entities, spawnables, kept, idx, bound, pc, created, start,
                   visited, cb, run, addedTick, runsTick, polls, passed,
                   life, animVars, moreVars>>

\* One iteration of the for loop of one_rest_split_iter.
PassNext ==
    /\ pc = "loop" /\ idx < bound
    /\ LET r == SwapKept(entities, idx, kept)
       IN  Callback(r.kept, r.vec)
    /\ idx' = idx + 1
    /\ UNCHANGED <<pc, tfail, start, passed, animVars, moreVars>>

\* The end of one_rest_split_iter, and of the pass.
PassEnd ==
    /\ pc = "loop" /\ idx = bound
    /\ entities' = PushKept(entities, kept)
    /\ kept' = NoEntity
    /\ pc' = "ready"
    /\ passed' = TRUE
    /\ cb' = NoCallback
    /\ run' = NoRun
    /\ UNCHANGED <<spawnables, idx, bound, tfail, created, start, visited,
                   addedTick, runsTick, polls, life, animVars, moreVars>>

NextTick == PassFirst \/ PassEmpty \/ PassNext \/ PassEnd

SpecTick == InitTick /\ [][NextTick]_vars

----------------------------------------------------------------------------
(* Lookups in a map *)

\* The integer coordinates asked for: around and inside the map.
Coords == (0 - 2) .. (MaxSide + 1)

\* The f64 coordinates asked for: the halves from -1.5 to MaxSide + 0.5.
FCoords == {k * (Unit \div 2) : k \in (0 - 3) .. (2 * MaxSide + 1)}

InitMap ==
    /\ AnimParked
    /\ TickParked
    /\ SpriteParked
    /\ GameParked
    /\ LateParked
    /\ map \in Maps
    /\ lookup = NoLookup

\* map.tile(x, y)
MTile(x, y) ==
    /\ lookup' = [kind |-> "tile", x |-> x, y |-> y, result |-> Tile(map, x, y)]
    /\ UNCHANGED <<map, animVars, tickVars, lateVars, appVars, spriteVars, gameVars>>

\* map.tilef(x, y)
MTilef(x, y) ==
    /\ lookup' = [kind |-> "tilef", x |-> x, y |-> y,
                  result |-> Tilef(map, x, y)]
    /\ UNCHANGED <<map, animVars, tickVars, lateVars, appVars, spriteVars, gameVars>>

NextMap ==
    \/ \E x, y \in Coords : MTile(x, y)
    \/ \E x, y \in FCoords : MTilef(x, y)

SpecMap == InitMap /\ [][NextMap]_vars

----------------------------------------------------------------------------
(* Loads and drops of sprite sheets *)

InitSprites ==
    /\ AnimParked
    /\ TickParked
    /\ MapParked
    /\ GameParked
    /\ LateParked
    /\ assets \in SUBSET Names
    /\ sprites = [n \in Names |-> NoSheet]
    /\ sheets = <<>>
    /\ sfail = "none"
    /\ lastLoad = NoLoad

\* let sheet = manager.load(name); the caller keeps the handle.
SLoad(name) ==
    /\ sfail = "none"
    /\ sprites[name] = NoSheet => Len(sheets) < MaxSheets
    /\ sprites[name] # NoSheet => sheets[sprites[name]] < MaxHandles
    /\ LET o == Load(assets, sprites, sheets, name)
       IN  /\ sprites' = o.sprites
           /\ sheets' = o.sheets
           /\ sfail' = o.fail
           /\ lastLoad' =
                [done |-> TRUE, name |-> name, result |-> o.result,
                 read |-> o.read,
                 live |-> sprites[name] # NoSheet
                          /\ sheets[sprites[name]] > 0,
                 dead |-> sprites[name] # NoSheet
                          /\ sheets[sprites[name]] = 0,
                 prior |-> sprites[name]]
    /\ UNCHANGED <<assets, animVars, tickVars, lateVars, appVars, mapVars, gameVars>>

\* drop(sheet) by a holder of a strong handle
SDrop(sheet) ==
    /\ sfail = "none"
    /\ sheet \in 1..Len(sheets) /\ sheets[sheet] > 0
    /\ sheets' = [sheets EXCEPT ![sheet] = @ - 1]
    /\ UNCHANGED <<assets, sprites, sfail, lastLoad, animVars, tickVars, lateVars, appVars,
                   mapVars, gameVars>>

\* sheet.clone() by a holder of a strong handle, as Character::update does
\* for the sprite it sets
SClone(sheet) ==
    /\ sfail = "none"
    /\ sheet \in 1..Len(sheets)
    /\ sheets[sheet] > 0 /\ sheets[sheet] < MaxHandles
    /\ sheets' = [sheets EXCEPT ![sheet] = @ + 1]
    /\ UNCHANGED <<assets, sprites, sfail, lastLoad, animVars, tickVars, lateVars, appVars,
                   mapVars, gameVars>>

NextSprites ==
    \/ \E name \in Names : SLoad(name)
    \/ \E sheet \in 1..MaxSheets : SDrop(sheet)
    \/ \E sheet \in 1..MaxSheets : SClone(sheet)

SpecSprites == InitSprites /\ [][NextSprites]_vars

----------------------------------------------------------------------------
(* Game::new and the ticks of a game *)

\* The entity definitions of a map factory.
Definitions ==
    UNION {[1..n -> [type_id : TypeIds, position : Positions]]
           : n \in 0..MaxDefs}

\* The grids of a map factory: one tile wide, one or two tiles high.
FactoryGrids == {m \in Maps : m.width = 1}

Factories ==
    {[nb_players |-> n, entities |-> d, width |-> g.width,
      height |-> g.height, tiletypes |-> g.tiletypes, tiles |-> g.tiles]
     : n \in {0, 1, 4}, d \in Definitions, g \in FactoryGrids}

\* The f32 of a whole literal such as 75.0.
F32Of(n) == SRound(Whole(n), 1)

\* MapFactory::example, lines 183-205: the tile at column x of row y.
ExampleTile(x, y) ==
    IF y = 1 /\ x >= 2 /\ x <= 92 /\ (x - 2) % 5 = 0 THEN 0
    ELSE IF y = 0 /\ x >= 40 /\ x < 60 THEN 3
    ELSE IF y = 0 \/ y = 99 \/ x = 0 \/ x = 99 THEN 0
    ELSE IF y >= 70 THEN 2
    ELSE 1

\* The positions of the four f.spawn definitions of MapFactory::example.
ExampleSpawns ==
    <<<<F32Of(15), F32Of(1)>>, <<F32Of(25), F32Of(1)>>,
      <<F32Of(75), F32Of(1)>>, <<F32Of(85), F32Of(1)>>>>

\* MapFactory::example()
ExampleFactory ==
    [nb_players |-> 4,
     entities |-> [j \in 1..4 |->
                     [type_id |-> "f.spawn", position |-> ExampleSpawns[j]]],
     width |-> 100, height |-> 100,
     tiletypes |-> <<"Wall", "Background", "Sky", "Lava">>,
     tiles |-> [j \in 1..(100 * 100) |->
                  ExampleTile((j - 1) % 100, (j - 1) \div 100)]]

\* The seeds MapFactory::create is compared over.
Seeds == {0, 1, GameSeed}

\* The implementations of EntityLogic a game may hold: those of the
\* repository, and another one whose update leaves the entity and the world
\* alone and returns true or false.
GLogics == Logics \cup {"Other"}

\* The entities of a game a run starts from: one or two entities of any
\* logic at any position, not moving (Game::new returns no empty world, and
\* no entity is ever removed).
InitGEntities ==
    UNION {{[j \in 1..n |-> GEntity(j, l[j], q[j], ZeroVec)]
            : l \in [1..n -> GLogics], q \in [1..n -> Positions]}
           : n \in 1..2}

\* The cameras of a game a run starts from.
InitCameras ==
    {[aspect_ratio |-> r, pos |-> p, size |-> z, update_rate |-> u]
     : r \in Ratios, p \in {ZeroVec, <<0 - Whole(4), 0 - Whole(6)>>},
       z \in {Whole(10), Whole(16)}, u \in {Unit, PlayRate}}

OtherParked ==
    AnimParked /\ TickParked /\ MapParked /\ SpriteParked /\ LateParked

\* Before Game::new(map_factory, resources).
InitNew ==
    /\ factory \in Factories \cup {ExampleFactory}
    /\ gpc = "new" /\ gents = <<>> /\ gqueue = <<>> /\ gkept = NoGEntity
    /\ gidx = 0 /\ gbound = 0 /\ focus = NoFocus
    /\ camera = FirstCamera(Unit) /\ gfail = "none" /\ ticks = 0
    /\ calls = <<>> /\ blend = NoBlend

\* A Game between two ticks: Game::update takes any value of Game.
InitPlaying ==
    /\ factory = NoFactory
    /\ gpc = "ready"
    /\ gents \in InitGEntities
    /\ gqueue \in {<<>>, <<SimpleSpawn(1, "Character")>>}
    /\ gkept = NoGEntity /\ gidx = 0 /\ gbound = 0 /\ focus = NoFocus
    /\ camera \in InitCameras
    /\ gfail = "none" /\ ticks = 0 /\ calls = <<>> /\ blend = NoBlend

InitGame == OtherParked /\ (InitNew \/ InitPlaying)

InPass == gpc \in {"newloop", "loop"}

\* Game::new, lines 167-169: the panic on a map for no player.
GNewFail ==
    /\ gpc = "new" /\ TooFewPlayers(factory)
    /\ gpc' = "failed"
    /\ gfail' = NoPlayers
    /\ UNCHANGED <<factory, gents, gqueue, gkept, gidx, gbound, focus, camera,
                   ticks, calls, blend, animVars, tickVars, lateVars, appVars, mapVars,
                   spriteVars>>

\* Game::new, lines 171-187: the world of the factory, the character
\* queued to spawn, the camera.
GNewCreate ==
    /\ gpc = "new" /\ ~TooFewPlayers(factory)
    /\ LET world == MapFactoryCreate(factory, GameSeed)
       IN  /\ map' = world.map
           /\ gents' = world.entities
           /\ gqueue' = Append(world.spawnables, SimpleSpawn(1, "Character"))
    /\ \E ratio \in Ratios : camera' = FirstCamera(ratio)
    /\ gpc' = "created"
    /\ UNCHANGED <<factory, gkept, gidx, gbound, focus, gfail, ticks, calls,
                   blend, lookup, animVars, tickVars, lateVars, appVars, spriteVars>>

\* Game::new, lines 192-196, after game.update(0.0, resources) returned.
GNewFinish ==
    /\ gpc = "updated"
    /\ camera' = [camera EXCEPT !.update_rate = PlayRate]
    /\ gpc' = "ready"
    /\ UNCHANGED <<factory, gents, gqueue, gkept, gidx, gbound, focus, gfail,
                   ticks, calls, blend, animVars, tickVars, lateVars, appVars, mapVars,
                   spriteVars>>

\* The call f(&mut kept, &mut vec) with the closure of Game::update: the
\* update of the active entity, with box the focus and said the calls of
\* focus before it.
GCallback(active, rest, box, said) ==
    IF active.logic = "Spawn"
    THEN LET o == SpawnUpdate(rest, gqueue, NoAnswers(gqueue), Len(rest) + 2)
         IN  /\ gents' = Located(o.entities, Len(rest), active.pos)
             /\ gqueue' = o.spawnables
             /\ gkept' = ClosureKeeps(active, TRUE)
             /\ focus' = box
             /\ calls' = said
    ELSE IF active.logic = "Character"
    THEN /\ \E moved \in CharacterMoves(active) :
              gkept' = ClosureKeeps(moved, TRUE)
         /\ gents' = rest
         /\ gqueue' = gqueue
         /\ focus' = Focus(box, active.pos)
         /\ calls' = Append(said, active.pos)
    ELSE /\ \E alive \in BOOLEAN : gkept' = ClosureKeeps(active, alive)
         /\ gents' = rest
         /\ gqueue' = gqueue
         /\ focus' = box
         /\ calls' = said

\* Game::update, lines 224-236, up to the first call of the closure.
GPassFirst ==
    /\ gpc \in {"created", "ready"}
    /\ gpc = "ready" => ticks < MaxTicks
    /\ gents # <<>>
    /\ LET r == RemoveFirst(gents)
       IN  GCallback(r.kept, r.vec, NoFocus, <<>>)
    /\ gidx' = 0
    /\ gbound' = RangeEnd(gents')
    /\ gpc' = IF gpc = "created" THEN "newloop" ELSE "loop"
    /\ ticks' = IF gpc = "created" THEN ticks ELSE ticks + 1
    /\ blend' = NoBlend
    /\ UNCHANGED <<factory, camera, gfail, animVars, tickVars, lateVars, appVars, mapVars,
                   spriteVars>>

\* Game::update on a world without entities: vec.remove(0) panics.
GPassEmpty ==
    /\ gpc \in {"created", "ready"}
    /\ gpc = "ready" => ticks < MaxTicks
    /\ gents = <<>>
    /\ gfail' = RemoveEmpty
    /\ gpc' = "failed"
    /\ UNCHANGED <<factory, gents, gqueue, gkept, gidx, gbound, focus, camera,
                   ticks, calls, blend, animVars, tickVars, lateVars, appVars, mapVars,
                   spriteVars>>

\* One iteration of the for loop of one_rest_split_iter.
GPassNext ==
    /\ InPass /\ gidx < gbound
    /\ LET r == SwapKept(gents, gidx, gkept)
       IN  GCallback(r.kept, r.vec, focus, calls)
    /\ gidx' = gidx + 1
    /\ UNCHANGED <<factory, gpc, gbound, camera, gfail, ticks, blend,
                   animVars, tickVars, lateVars, appVars, mapVars, spriteVars>>

\* The end of the pass and of Game::update: lines 237-255.
GPassEnd ==
    /\ InPass /\ gidx = gbound
    /\ gents' = PushKept(gents, gkept)
    /\ gkept' = NoGEntity
    /\ camera' = CameraAfter(camera, focus)
    /\ blend' = [done |-> TRUE, before |-> camera, after |-> camera',
                 want |-> IF focus = NoFocus
                          THEN [pos |-> camera.pos, size |-> camera.size]
                          ELSE Desired(camera.aspect_ratio, focus)]
    /\ gpc' = IF gpc = "newloop" THEN "updated" ELSE "ready"
    /\ UNCHANGED <<factory, gqueue, gidx, gbound, focus, gfail, ticks, calls,
                   animVars, tickVars, lateVars, appVars, mapVars, spriteVars>>

NextGame ==
    \/ GNewFail \/ GNewCreate \/ GNewFinish
    \/ GPassFirst \/ GPassEmpty \/ GPassNext \/ GPassEnd

SpecGame == InitGame /\ [][NextGame]_vars

----------------------------------------------------------------------------
(* The calls made on an animation over any policy *)

\* Implementations of AnimationMap other than TestMap and CharacterMap: the
\* list initial_states returns and the list transition_to returns, each
\* empty or not.
OtherLists == {<<>>, <<"Idle">>, <<"Running", "Idle">>}
OtherPolicies ==
    {[kind |-> "OtherMap", initial |-> l, next |-> n]
     : l \in OtherLists, n \in OtherLists}

CharPolicies == {m \in Policies : m.kind = "CharacterMap"}

\* The dt of the updates: 1.0, 3.0 and 9.2.
DtPolicy == {FromTenths(n) : n \in {10, 30, 92}}

InitPolicy ==
    /\ amap \in CharPolicies \cup OtherPolicies
    /\ \E o \in AnimNew(amap) : anim = o.a /\ failure = o.fail
    /\ scriptPos = -1 /\ twice = NoTwice /\ lastGoto = NoGoto
    /\ hist = [NoHist EXCEPT !.op = "new"]
    /\ input = PlayerInputNew /\ upd = NoUpd
    /\ TickParked /\ MapParked /\ SpriteParked /\ GameParked /\ AppParked

\* animation.goto_state(state)
PGoto(state) ==
    /\ failure = "none"
    /\ \E o \in GotoState(amap, anim, state) : anim' = o.a /\ failure' = o.fail
    /\ hist' = [NoHist EXCEPT !.op = "goto_state", !.state = state,
                              !.before = anim,
                              !.current = IF Len(anim.states) = 0 THEN None
                                          ELSE GotoCurrent(anim)]
    /\ UNCHANGED <<amap, scriptPos, twice, lastGoto, input, upd, tickVars,
                   mapVars, spriteVars, gameVars, appVars>>

\* animation.update(dt)
PUpdate(dt) ==
    /\ failure = "none"
    /\ \E o \in Update(amap, anim, dt) : anim' = o.a /\ failure' = o.fail
    /\ hist' = [NoHist EXCEPT !.op = "update", !.dt = dt, !.before = anim]
    /\ UNCHANGED <<amap, scriptPos, twice, lastGoto, input, upd, tickVars,
                   mapVars, spriteVars, gameVars, appVars>>

\* animation_map.transition_to(current, other), called on the policy of a
\* new animation.
PTransition(current, other) ==
    /\ failure = "none"
    /\ hist.op = "new"
    /\ \E l \in TransitionTo(amap, current, other) :
          hist' = [NoHist EXCEPT !.op = "transition_to", !.state = other,
                                !.current = current, !.result = l]
    /\ UNCHANGED <<amap, anim, failure, scriptPos, twice, lastGoto, input,
                   upd, tickVars, mapVars, spriteVars, gameVars, appVars>>

NextPolicy ==
    \/ \E s \in StatesOf(amap) : PGoto(s)
    \/ \E dt \in DtPolicy : PUpdate(dt)
    \/ \E c \in StatesOf(amap), o \in StatesOf(amap) \cup {None} :
          PTransition(c, o)

SpecPolicy == InitPolicy /\ [][NextPolicy]_vars

----------------------------------------------------------------------------
(* The events of a player's input *)

\* The values of an analog axis: from -1.5 to 1.5, and around the threshold.
AnalogValues ==
    {k * (Unit \div 2) : k \in (0 - 3) .. 3}
    \cup {INPUT_THRESHOLD, INPUT_THRESHOLD + 1}

InitInput ==
    /\ AnimParked /\ TickParked /\ MapParked /\ SpriteParked /\ GameParked
    /\ AppParked
    /\ hist = NoHist /\ upd = NoUpd
    /\ \E ax, ay \in AnalogValues :
          input = [PlayerInputNew EXCEPT !.a_x = ax, !.a_y = ay]

\* input_manager.handle_event(event) for a key of the keyboard.
IHandleKey(key, pressed) ==
    /\ input' = HandleKey(input, key, pressed)
    /\ UNCHANGED <<hist, upd, animVars, tickVars, mapVars, spriteVars,
                   gameVars, appVars>>

NextInput == \E key \in Keys, pressed \in BOOLEAN : IHandleKey(key, pressed)

SpecInput == InitInput /\ [][NextInput]_vars

----------------------------------------------------------------------------
(* The run of the application *)

\* After App::new: one state on the stack.  App::new pushes the Game; the
\* run is taken from a first state of any kind.
InitApp ==
    /\ AnimParked /\ TickParked /\ MapParked /\ SpriteParked /\ GameParked
    /\ hist = NoHist /\ input = PlayerInputNew /\ upd = NoUpd
    /\ \E k \in StateKinds : astates = <<[id |-> 1, kind |-> k]>>
    /\ apc = "run" /\ trans = Continue
    /\ window = [open |-> TRUE, capture |-> FALSE]
    /\ status = [j \in 1..MaxStates |-> IF j = 1 THEN "new" ELSE "none"]
    /\ call = NoCall /\ amade = 1 /\ afail = "none"

otherVars == <<animVars, tickVars, mapVars, spriteVars, gameVars, lateVars>>

\* The calls ops were done on the state at the top of the stack, and the
\* window is then open or not.
Did(ops, open) ==
    LET top == astates[Len(astates)]
    IN  /\ status' = [status EXCEPT ![top.id] = StatusAfter(@, ops)]
        /\ window' = [open |-> open,
                      capture |-> CaptureAfter(top.kind, window.capture, ops)]

\* App::run, lines 97-98, and handle_state, line 120: the state at the top
\* of the stack is resumed.
ARunCall ==
    /\ apc = "run" /\ astates # <<>>
    /\ Did(<<"resume">>, window.open)
    /\ call' = [id |-> astates[Len(astates)].id, resumes |-> 1, pauses |-> 0,
                ops |-> <<"resume">>, ret |-> 0]
    /\ apc' = "events"
    /\ UNCHANGED <<astates, trans, amade, afail, otherVars>>

\* App::run, lines 99-101: no state is left.
ARunEmpty ==
    /\ apc = "run" /\ astates = <<>>
    /\ apc' = "done"
    /\ UNCHANGED <<astates, trans, window, status, call, amade, afail, otherVars>>

\* handle_state, lines 123-148: one event of the window.
AEvent(ev, he, up) ==
    /\ apc = "events" /\ window.open
    /\ he \in HandleEventOf(astates[Len(astates)].kind, ev)
    /\ up \in UpdateOf(astates[Len(astates)].kind)
    /\ LET r == EventCalls(ev, he, up)
       IN  /\ r.out.kind \in {"Push", "Replace"} => amade < MaxStates
           /\ Did(r.ops, TRUE)
           /\ call' = [call EXCEPT !.ops = r.ops, !.ret = r.ret,
                                   !.pauses = @ + Count(r.ops, "pause"),
                                   !.resumes = @ + Count(r.ops, "resume")]
           /\ IF r.ret # 0
              THEN trans' = r.out /\ apc' = "match"
              ELSE UNCHANGED <<trans, apc>>
    /\ UNCHANGED <<astates, amade, afail, otherVars>>

\* handle_state, lines 123 and 149-150: events.next returns None, the window
\* is closed.
AClose ==
    /\ apc = "events"
    /\ Did(Paused(<<>>), FALSE)
    /\ call' = [call EXCEPT !.ops = Paused(<<>>), !.ret = 0,
                            !.pauses = @ + Count(Paused(<<>>), "pause")]
    /\ trans' = End
    /\ apc' = "match"
    /\ UNCHANGED <<astates, amade, afail, otherVars>>

\* App::run, lines 102-115: the match on the transition.
AApply ==
    /\ apc = "match"
    /\ LET new == [id |-> amade + 1, kind |-> trans.state]
       IN  IF trans.kind = "Continue"
           THEN /\ afail' = ContinuePanic /\ apc' = "failed"
                /\ UNCHANGED <<astates, amade, status>>
           ELSE IF trans.kind = "End"
           THEN /\ astates' = SubSeq(astates, 1, Len(astates) - 1)
                /\ apc' = "run"
                /\ UNCHANGED <<amade, status, afail>>
           ELSE IF trans.kind = "Replace"
           THEN /\ astates' = ReplaceTop(astates, new)
                /\ amade' = amade + 1
                /\ status' = [status EXCEPT ![new.id] = "new"]
                /\ apc' = "run"
                /\ UNCHANGED afail
           ELSE IF trans.kind = "Push"
           THEN /\ astates' = Append(astates, new)
                /\ amade' = amade + 1
                /\ status' = [status EXCEPT ![new.id] = "new"]
                /\ apc' = "run"
                /\ UNCHANGED afail
           ELSE /\ apc' = "done"
                /\ UNCHANGED <<astates, amade, status, afail>>
    /\ UNCHANGED <<trans, window, call, otherVars>>

NextApp ==
    \/ ARunCall \/ ARunEmpty \/ AClose \/ AApply
    \/ \E ev \in Events, he \in Transitions, up \in Transitions :
          AEvent(ev, he, up)

SpecApp == InitApp /\ [][NextApp]_vars

----------------------------------------------------------------------------
(* Animation::update, one iteration of its loop at a time *)

\* A dt around which the values of the format are 32.0 apart (2^57 in f64).
DtHuge == Whole(Pow2(MantBits + 4))

\* The dt of the updates: 1.0, 9.2 and the huge one.
DtLoop == {FromTenths(10), FromTenths(92), DtHuge}

\* A new animation over a policy of the repository; every sequence of
\* these policies lasts more than nothing.
InitLoop ==
    /\ amap \in Policies
    /\ \E o \in AnimNew(amap) : anim = o.a /\ failure = o.fail
    /\ scriptPos = -1 /\ twice = NoTwice /\ lastGoto = NoGoto
    /\ hist = NoHist /\ input = PlayerInputNew /\ upd = NoUpd
    /\ TickParked /\ MapParked /\ SpriteParked /\ GameParked /\ AppParked

\* animation.update(dt), lines 87-91: up to the first test of the loop.
LCall(dt) ==
    /\ upd.pc = "idle" /\ failure = "none"
    /\ IF ~(anim.state_idx < Len(anim.states))
       THEN /\ failure' = "Animation has empty states vec"
            /\ UNCHANGED <<anim, upd>>
       ELSE /\ anim' = [anim EXCEPT !.sequence_time = FAdd(@, dt)]
            /\ upd' = [pc |-> "loop", dt |-> dt, entry |-> anim',
                       moved |-> FALSE]
            /\ UNCHANGED failure
    /\ UNCHANGED <<amap, scriptPos, twice, lastGoto, hist, input, tickVars,
                   mapVars, spriteVars, gameVars, appVars>>

\* Animation::update, lines 92-107: the test of the loop, and one
\* iteration when it holds.
LStep ==
    /\ upd.pc = "loop"
    /\ IF ~LoopCond(amap, anim)
       THEN /\ upd' = [upd EXCEPT !.pc = "idle"]
            /\ UNCHANGED <<anim, failure>>
       ELSE \E o \in LoopBody(amap, anim) :
               /\ anim' = o.a /\ failure' = o.fail
               /\ upd' = [upd EXCEPT !.moved = TRUE,
                                     !.pc = IF o.fail = "none" THEN "loop"
                                            ELSE "idle"]
    /\ UNCHANGED <<amap, scriptPos, twice, lastGoto, hist, input, tickVars,
                   mapVars, spriteVars, gameVars, appVars>>

NextLoop == LStep \/ \E dt \in DtLoop : LCall(dt)

SpecLoop == InitLoop /\ [][NextLoop]_vars

----------------------------------------------------------------------------
\* Properties of Animation

\* The invariants of an Animation between calls: a non-empty list of states,
\* state_idx inside it, and sequence_time inside the current sequence.
AnimInvariant ==
    failure = "none" =>
        /\ Len(anim.states) > 0
        /\ anim.state_idx < Len(anim.states)
        /\ anim.sequence_time >= 0
        /\ anim.sequence_time
             < Duration(amap, anim.states[anim.state_idx + 1])

\* C1: along the calls of test_animation (new, update 9.2, update 1.0,
\* update 8.0, update 8.2, goto Running, update 3.8, goto Idle, update 3.2,
\* update 8.0) get() returns 10, 14, 20, 13, 11, 30, 33, 40, 43, 11 in turn.
C1_TestAnimationFrames ==
    scriptPos >= 0 => Get(amap, anim) = Expected[scriptPos + 1]

C1_ScriptDone == scriptPos = Len(Script) /\ failure = "none"

\* C2 as stated: update(a) followed by update(b) leaves the same states,
\* state_idx and sequence_time as the single update(a + b), for every a, b.
C2_SplitEqualsJoined == twice.done => twice.same

\* C2: update(a) followed by update(b) leaves the same states, state_idx and
\* sequence_time as update(a + b) whenever a + b and every addition and
\* subtraction made by the three calls is exact in the floating point format.
C2_SplitEqualsJoinedWhenExact == (twice.done /\ twice.exact) => twice.same

C2_ExactAcrossSequences ==
    twice.done /\ twice.exact /\ twice.same /\ twice.crossed

\* C3: between calls the list of states is not empty, state_idx is inside
\* it and 0 <= sequence_time < duration of the current sequence, so that
\* get() never fails.
C3_GetNeverFails ==
    failure = "none" =>
        /\ Len(anim.states) > 0
        /\ anim.state_idx < Len(anim.states)
        /\ anim.sequence_time >= 0
        /\ anim.sequence_time
             < Duration(amap, anim.states[anim.state_idx + 1])
        /\ Get(amap, anim) # NoFrame

\* C4: after goto_state(s) state_idx is 0, sequence_time is 0 and the list
\* of states is what transition_to(current, Some(s)) answered, whatever the
\* position of the animation was.
C4_GotoResets ==
    (lastGoto.done /\ failure = "none") =>
        /\ anim.state_idx = 0
        /\ anim.sequence_time = 0
        /\ anim.states \in TransitionTo(amap, lastGoto.current, lastGoto.state)

C4_GotoFromMidList == lastGoto.done /\ lastGoto.mid /\ failure = "none"

----------------------------------------------------------------------------
\* Properties of the tick

\* The entities of the start of the tick among those visited, in the order
\* of the visits.
VisitedOfStart == SelectSeq(visited, LAMBDA e : e \in Range(start))

\* C5: every entity that is in the world when a tick starts is updated
\* exactly once, in the order of the entity vector at the start of the tick,
\* also when updates push new entities: during the pass the visits of those
\* entities are a prefix of the start order, at its end all of it.
C5_StartEntitiesOnceInOrder ==
    /\ pc = "loop" =>
          /\ Len(VisitedOfStart) <= Len(start)
          /\ VisitedOfStart = SubSeq(start, 1, Len(VisitedOfStart))
    /\ (pc = "ready" /\ passed /\ tfail = "none") => VisitedOfStart = start

C5_PassWithPush ==
    /\ pc = "ready" /\ passed
    /\ Len(start) >= 3
    /\ Len(visited) > Len(start)

\* C6: at every call of the closure of one_rest_split_iter the rest does
\* not hold the active entity, holds no entity twice, and the rest together
\* with the active entity is every entity of the world.
C6_RestAndActivePartition ==
    pc = "loop" =>
        /\ cb.active \notin Range(cb.rest)
        /\ \A i, j \in DOMAIN cb.rest : cb.rest[i] = cb.rest[j] => i = j
        /\ Range(cb.rest) \cup {cb.active} = 1 .. cb.count

C6_LateCallbackAfterPush ==
    pc = "loop" /\ idx >= 2 /\ cb.count > Len(start)

\* The first spawnable of a run that created an entity.
FirstSome(given) ==
    CHOOSE j \in 1 .. Len(given) :
        /\ given[j].spawned # NoLogic
        /\ \A i \in 1 .. (j - 1) : given[i].spawned = NoLogic

SomeGiven(given) == \E j \in 1 .. Len(given) : given[j].spawned # NoLogic

\* C7: in one run of Spawn::update, if the first k spawnables of the queue
\* answer None and the next one answers Some, exactly one entity is added,
\* exactly those k + 1 spawnables are polled, once each and in order, and
\* the spawnables after them stay in the queue, untouched and in order.
C7_FirstProducerWins ==
    (run.ran /\ SomeGiven(run.given)) =>
        LET n == Len(run.before)
            k1 == FirstSome(run.given)
            m == Len(run.after)
        IN  /\ run.added = 1
            /\ run.polled = [j \in 1 .. k1 |-> run.before[j].sid]
            /\ m >= n - k1
            /\ SubSeq(run.after, m - (n - k1) + 1, m)
                 = SubSeq(run.before, k1 + 1, n)

C7_SecondOfThreeProduces ==
    /\ run.ran /\ Len(run.before) = 3
    /\ SomeGiven(run.given) /\ FirstSome(run.given) = 2

\* The visited spawnables that asked to be kept, in order.
RECURSIVE KeptVisited(_, _, _)
KeptVisited(before, given, j) ==
    IF j > Len(given) THEN <<>>
    ELSE (IF given[j].keep THEN <<before[j]>> ELSE <<>>)
         \o KeptVisited(before, given, j + 1)

\* C8: after a run of Spawn::update the queue is the visited spawnables
\* that answered keep = true, in order, followed by the spawnables that were
\* not visited, in order.
C8_QueueAfterRun ==
    run.ran =>
        /\ Len(run.given) <= Len(run.before)
        /\ run.after = KeptVisited(run.before, run.given, 1)
                       \o SubSeq(run.before, Len(run.given) + 1,
                                 Len(run.before))

C8_KeptDroppedUnvisited ==
    /\ run.ran /\ Len(run.before) = 3 /\ Len(run.given) = 2
    /\ run.given[1].keep /\ ~run.given[2].keep

----------------------------------------------------------------------------
\* Properties of Map

InMap(m, x, y) == x >= 0 /\ x < m.width /\ y >= 0 /\ y < m.height

\* C14: Map::tile(x, y) is None exactly when x < 0, x >= width, y < 0 or
\* y >= height, and otherwise it is tiletypes[tiles[y * width + x]]; on a
\* map of width * height tiles, each an index of tiletypes, no lookup
\* indexes out of range.
C14_TileInsideOrNone ==
    lookup.kind = "tile" =>
        /\ lookup.result = NoTile <=> ~InMap(map, lookup.x, lookup.y)
        /\ InMap(map, lookup.x, lookup.y) =>
              lookup.result
                = map.tiletypes[map.tiles[lookup.y * map.width + lookup.x + 1] + 1]
        /\ lookup.result # OutOfBounds

C14_LastTileOfOblongMap ==
    /\ lookup.kind = "tile"
    /\ map.width # map.height /\ lookup.y >= 1
    /\ lookup.x = map.width - 1 /\ lookup.y = map.height - 1
    /\ lookup.result = Palette[2]

\* C15: for all finite x and y, negative fractions included, Map::tilef(x, y)
\* is Map::tile(floor(x), floor(y)).
C15_TilefIsTileOfFloor ==
    lookup.kind = "tilef" =>
        lookup.result = Tile(map, Floor(lookup.x), Floor(lookup.y))

----------------------------------------------------------------------------
\* Properties of SpriteManager

\* C16: after every strong handle to a sheet has been dropped, the next load
\* of its name completes normally: it reads the sheet again, returns a
\* fresh handle and caches a weak reference to it.
C16_ReloadAfterDrop ==
    (lastLoad.done /\ lastLoad.dead /\ lastLoad.name \in assets) =>
        /\ sfail = "none"
        /\ lastLoad.read
        /\ lastLoad.result # NoSheet /\ lastLoad.result # lastLoad.prior
        /\ sprites[lastLoad.name] = lastLoad.result
        /\ sheets[lastLoad.result] = 1

\* C17: while a strong handle to the sheet of a name is alive, load of that
\* name returns a handle to that same sheet and does not read the source,
\* however many loads and whatever loads of other names came before.
C17_LiveSheetShared ==
    (lastLoad.done /\ lastLoad.live) =>
        /\ sfail = "none"
        /\ lastLoad.result = lastLoad.prior
        /\ ~lastLoad.read
        /\ sprites[lastLoad.name] = lastLoad.prior

C17_SharedAfterOtherLoad ==
    /\ lastLoad.done /\ lastLoad.live
    /\ lastLoad.result = 1 /\ sheets[1] = 2
    /\ Len(sheets) = 2 /\ sheets[2] > 0

----------------------------------------------------------------------------
\* Properties of Game::new

\* The definitions of a known type_id, in definition order.
KnownDefs(defs) == SelectSeq(defs, LAMBDA d : d.type_id = "f.spawn")

\* C18: Game::new on a factory with nb_players < 1 fails with the panic
\* of line 168 before the world is created and before any tick runs; with
\* nb_players >= 1 that panic never happens.
C18_NoPlayersFailsFirst ==
    /\ factory.nb_players < 1 =>
          /\ gpc \in {"new", "failed"}
          /\ gpc = "failed" => gfail = NoPlayers
          /\ gents = <<>> /\ gqueue = <<>>
          /\ ticks = 0 /\ calls = <<>> /\ ~blend.done
    /\ factory.nb_players >= 1 => gfail # NoPlayers

\* Game::new failed on a factory for no player that defines known entities.
C18_FailedWithKnownDefs ==
    /\ factory.nb_players < 1
    /\ KnownDefs(factory.entities) # <<>>
    /\ gpc = "failed" /\ gfail = NoPlayers

\* C19: after MapFactory::create the entities of the world are the
\* entities of the definitions with a known type_id, at the positions of the
\* definitions, with zero speed, in the order of the definitions; unknown
\* type_ids are skipped without a failure.
C19_KnownDefinitionsOnly ==
    gpc = "created" =>
        LET known == KnownDefs(factory.entities)
        IN  /\ gfail = "none"
            /\ Len(gents) = Len(known)
            /\ \A j \in 1..Len(gents) :
                  /\ gents[j].logic = "Spawn"
                  /\ gents[j].pos = known[j].position
                  /\ gents[j].speed = ZeroVec

\* An unknown definition followed by a known one: one entity is created.
C19_SkippedThenCreated ==
    /\ gpc = "created"
    /\ Len(factory.entities) = 2
    /\ factory.entities[1].type_id # "f.spawn"
    /\ factory.entities[2].type_id = "f.spawn"
    /\ Len(gents) = 1
    /\ gents[1].pos = factory.entities[2].position

\* C20: Game::update on a world without entities completes without a
\* fatal failure, visits no entity and leaves the camera unchanged.
C20_EmptyWorldPlayable ==
    (gents = <<>> /\ gkept = NoGEntity /\ gpc # "new") => gfail = "none"

----------------------------------------------------------------------------
\* Properties of the focus and of the camera

SetMin(S) == CHOOSE m \in S : \A x \in S : m <= x
SetMax(S) == CHOOSE m \in S : \A x \in S : m >= x

\* The x (k = 1) or y (k = 2) given to the calls of focus of the tick.
Called(k) == {calls[j][k] : j \in 1..Len(calls)}

\* C11: a tick in which no entity called focus leaves pos, size,
\* aspect_ratio and update_rate of the camera as they were before it.
C11_NoFocusNoCameraChange ==
    (blend.done /\ calls = <<>>) => blend.after = blend.before

\* A tick of a running game without a call of focus, the camera being away
\* from where a game starts.
C11_TickWithoutFocus ==
    /\ blend.done /\ calls = <<>> /\ gpc = "ready" /\ ticks = 1
    /\ camera.update_rate = PlayRate
    /\ camera.pos # ZeroVec

\* C12: the focus of a tick is None as long as focus was not called in
\* the tick; after calls it is the pair of the minimum and of the maximum, on
\* each axis, of the positions of all the calls of the tick, whatever their
\* order, and the minimum is at most the maximum on both axes.
C12_FocusIsMinMaxOfCalls ==
    IF calls = <<>> THEN focus = NoFocus
    ELSE /\ focus = [lo |-> <<SetMin(Called(1)), SetMin(Called(2))>>,
                     hi |-> <<SetMax(Called(1)), SetMax(Called(2))>>]
         /\ focus.lo[1] <= focus.hi[1]
         /\ focus.lo[2] <= focus.hi[2]

\* Two calls of which neither gives a corner of the box.
C12_BoxOfTwoCalls ==
    /\ Len(calls) = 2
    /\ focus # NoFocus
    /\ \A j \in 1..2 : focus.lo # calls[j] /\ focus.hi # calls[j]
    /\ focus.lo[1] < focus.hi[1] /\ focus.lo[2] < focus.hi[2]

StrictlyBetween(x, a, b) == (a < x /\ x < b) \/ (b < x /\ x < a)

\* What the camera component did in the tick: from old it went to new, the
\* desired value being want.
MovesToward(old, new, want, rate) ==
    IF rate = Unit THEN new = want
    ELSE IF old = want THEN new = old
    ELSE StrictlyBetween(new, old, want)

\* The tick called focus and the camera was blended at a rate in (0, 1].
Blended == blend.done /\ calls # <<>> /\ blend.before.update_rate > 0

\* C13 as stated: after a tick with focus each of pos.x, pos.y and size
\* is strictly between its old and its desired value when they differ, is
\* unchanged when they are equal, and is the desired value when
\* update_rate is 1.
C13_StrictlyTowardDesired ==
    Blended =>
        LET r == blend.before.update_rate
        IN  /\ \A k \in 1..2 :
                  MovesToward(blend.before.pos[k], blend.after.pos[k],
                              blend.want.pos[k], r)
            /\ MovesToward(blend.before.size, blend.after.size,
                           blend.want.size, r)

\* C13: with update_rate = 1 each component ends at its desired value;
\* with update_rate in (0, 1) a component whose blend is computed without
\* rounding ends strictly between its old and its desired value when they
\* differ and is unchanged when they are equal.
C13_TowardDesiredWhenExact ==
    Blended =>
        LET r == blend.before.update_rate
        IN  /\ \A k \in 1..2 :
                  (r = Unit \/ SmoothExact(blend.before.pos[k],
                                           blend.want.pos[k], r))
                  => MovesToward(blend.before.pos[k], blend.after.pos[k],
                                 blend.want.pos[k], r)
            /\ (r = Unit \/ SmoothExact(blend.before.size,
                                        blend.want.size, r))
               => MovesToward(blend.before.size, blend.after.size,
                              blend.want.size, r)

\* A blend at the rate of play, computed without rounding, of a position
\* that is not the desired one.
C13_ExactBlendAtPlayRate ==
    /\ Blended
    /\ blend.before.update_rate = PlayRate
    /\ \E k \in 1..2 :
          /\ blend.before.pos[k] # blend.want.pos[k]
          /\ SmoothExact(blend.before.pos[k], blend.want.pos[k], PlayRate)
          /\ StrictlyBetween(blend.after.pos[k], blend.before.pos[k],
                             blend.want.pos[k])

----------------------------------------------------------------------------
\* Properties of PlayerInput

\* The sum of the analog value and of the keys, without rounding.
AxisSum(a, d_neg, d_pos) ==
    a + (IF d_neg THEN 0 - Unit ELSE 0) + (IF d_pos THEN Unit ELSE 0)

Clamped(v) == IF v < 0 - Unit THEN 0 - Unit ELSE IF v > Unit THEN Unit ELSE v

\* Neither addition of da_input rounds.
SumExact(a, d_neg, d_pos) ==
    /\ ExactQ(a + (IF d_neg THEN 0 - Unit ELSE 0), 1)
    /\ ExactQ(AxisSum(a, d_neg, d_pos), 1)

\* x() or y() of an axis: in [-1, 1], and the clamped sum when no addition
\* rounds.
AxisClamped(v, a, d_neg, d_pos) ==
    /\ v >= 0 - Unit /\ v <= Unit
    /\ SumExact(a, d_neg, d_pos) => v = Clamped(AxisSum(a, d_neg, d_pos))

\* C30: x() and y() are in [-1, 1] for every analog value and every
\* combination of keys, and are the clamped sum of the analog value, -1 for
\* the negative key and +1 for the positive key; jump() is true exactly when
\* the up key is down or the analog y is above the threshold 0.8.
C30_AxesClampedJumpThreshold ==
    /\ AxisClamped(InputX(input), input.a_x, input.d_left, input.d_right)
    /\ AxisClamped(InputY(input), input.a_y, input.d_down, input.d_up)
    /\ InputJump(input) <=> (input.d_up \/ input.a_y > FromTenths(8))

\* The right key is down with the stick to the right, the up key is not and
\* the stick is just above the threshold: x() is clamped and jump() is true.
C30_ClampedAndAnalogJump ==
    /\ input.d_right /\ ~input.d_left /\ input.a_x > 0
    /\ InputX(input) = Unit
    /\ ~input.d_up /\ input.d_down
    /\ input.a_y = INPUT_THRESHOLD + 1
    /\ InputJump(input)

----------------------------------------------------------------------------
\* Properties of the character policy

\* C22: in the character policy a goto_state to the opposite running
\* direction inserts the reversal pose, in both directions: from RunningLeft
\* to RunningRight the list is [ReversingLeftToRight, RunningRight], from
\* RunningRight to RunningLeft it is [ReversingRightToLeft, RunningLeft].
C22_ReversalBothWays ==
    (lastGoto.done /\ failure = "none" /\ amap.kind = "CharacterMap") =>
        /\ (lastGoto.current = "RunningLeft" /\ lastGoto.state = "RunningRight")
           => anim.states = <<"ReversingLeftToRight", "RunningRight">>
        /\ (lastGoto.current = "RunningRight" /\ lastGoto.state = "RunningLeft")
           => anim.states = <<"ReversingRightToLeft", "RunningLeft">>

\* The idle list of a direction: five times the idle state, then a fidget.
IdleLists(st) ==
    {<<st, st, st, st, st, "IdleAnim1">>, <<st, st, st, st, st, "IdleAnim2">>}

\* transition_to(current, None) was called on the character policy.
Exhausted(current) ==
    /\ amap.kind = "CharacterMap"
    /\ hist.op = "transition_to" /\ hist.state = None
    /\ hist.current = current

\* update was called on an animation over the character policy and returned.
CharUpdated ==
    amap.kind = "CharacterMap" /\ hist.op = "update" /\ failure = "none"

\* The update went past the end of the sequence the animation was in.
PastSequence ==
    hist.before.sequence_time + hist.dt
        >= Duration(amap, hist.before.states[hist.before.state_idx + 1])

\* C23: on exhaustion ShootingLeft falls back to the idle list of the
\* left and ShootingRight to the idle list of the right; a running state
\* returns the list holding itself, and an animation in a running state stays
\* in it over every update.
C23_ShootingToIdleRunningLoops ==
    /\ Exhausted("ShootingLeft") => hist.result \in IdleLists("IdleLeft")
    /\ Exhausted("ShootingRight") => hist.result \in IdleLists("IdleRight")
    /\ \A r \in {"RunningLeft", "RunningRight"} :
          /\ Exhausted(r) => hist.result = <<r>>
          /\ (CharUpdated /\ hist.before.states = <<r>>)
             => (anim.states = <<r>> /\ anim.state_idx = 0)

\* An update took a running animation past the end of its sequence.
C23_RunningPastItsEnd ==
    /\ CharUpdated /\ hist.before.states = <<"RunningLeft">>
    /\ PastSequence
    /\ anim.states = <<"RunningLeft">>

\* C24: on exhaustion IdleAnim1, IdleAnim2 and the two reversing states
\* fall back to the idle list of the right; an animation idling to the left
\* that an update takes to another list is idling to the right afterwards.
C24_DefaultToIdleRight ==
    /\ \A c \in {"IdleAnim1", "IdleAnim2", "ReversingLeftToRight",
                  "ReversingRightToLeft"} :
          Exhausted(c) => hist.result \in IdleLists("IdleRight")
    /\ (/\ CharUpdated
        /\ hist.before.states \in IdleLists("IdleLeft")
        /\ anim.states # hist.before.states)
       => anim.states \in IdleLists("IdleRight")

\* An update took an animation idling to the left past the end of its list.
C24_IdleLeftBecomesRight ==
    /\ CharUpdated
    /\ hist.before.states \in IdleLists("IdleLeft")
    /\ anim.states \in IdleLists("IdleRight")
    /\ anim.states[1] = "IdleRight"

\* C25: no animation holds an empty list of states: an empty list
\* returned by the policy is caught by an assertion in Animation::new, in
\* goto_state and in update.
C25_NoEmptyStates == failure = "none" => anim.states # <<>>

----------------------------------------------------------------------------
\* Properties of the order and of the lifetime of the entities

\* A pass ran to its end.
PassDone == pc = "ready" /\ passed /\ tfail = "none"

\* The entities of the start of the pass, in the order the world holds them.
StartOfEntities == SelectSeq(Ids(entities), LAMBDA e : e \in Range(start))

\* C26 as stated: after a full pass over two entities or more in which
\* no entity is added, the order of the entities differs from the order
\* before the pass.
C26_OrderChangesAfterPass ==
    (PassDone /\ Len(start) >= 2 /\ addedTick = 0) => Ids(entities) # start

\* C26: after a full pass in which no entity is added the entities are in
\* the order they had before the pass; when entities are added, those of
\* before the pass keep their relative order.
C26_OrderKeptAfterPass ==
    PassDone =>
        /\ StartOfEntities = start
        /\ addedTick = 0 => Ids(entities) = start

\* A full pass over three entities without an addition.
C26_PassOverThree ==
    PassDone /\ Len(start) = 3 /\ addedTick = 0 /\ Len(visited) = 3

\* The ids of the entities pushed since the pass began.
PushedInPass == (created - addedTick + 1) .. created

\* The world holds the entities of the start of the pass and those pushed
\* during it, each once.
Conserved ==
    /\ \A i, j \in DOMAIN entities : entities[i].id = entities[j].id => i = j
    /\ Range(Ids(entities)) = Range(start) \cup PushedInPass
    /\ Len(entities) = Len(start) + addedTick

\* Every vec[i] of the loop of one_rest_split_iter is inside the vector.
SwapInRange == (pc = "loop" /\ idx < bound) => idx < Len(entities)

\* C34 as stated: the update pass conserves the entities (after the pass
\* the world holds every entity of before the pass and every entity pushed
\* during it, each exactly once) and the pass ends without an out-of-range
\* access.
C34_PassConserves ==
    /\ tfail = "none"
    /\ SwapInRange
    /\ PassDone => Conserved

\* What does hold: a pass over a world that is not empty conserves the
\* entities and stays inside the vector; the only failure is the removal
\* of the first entity from an empty world.
C34_NonEmptyPassConserves ==
    /\ tfail # "none" => entities = <<>>
    /\ SwapInRange
    /\ PassDone => Conserved

\* A pass that pushed two entities ran to its end.
C34_PassPushedTwo == PassDone /\ addedTick = 2 /\ Len(entities) >= 4

\* The pass an entity was pushed in is over.
PassOfPushOver(e) == life[e].age > 0 \/ pc = "ready"

\* The pass after the one an entity was pushed in is over.
NextPassOver(e) == life[e].age = 1 /\ pc = "ready"

\* C35: an entity pushed during the turn of the first visited entity has
\* its own update called later in the same pass; an entity pushed during
\* the turn of a later entity is not visited in that pass and gets its
\* first update in the next pass.
C35_PushedInFirstTurnOnly ==
    \A e \in DOMAIN life :
        /\ life[e].turn = 1 =>
              /\ life[e].seen \in {-1, 0}
              /\ PassOfPushOver(e) => life[e].seen = 0
        /\ life[e].turn = 2 =>
              /\ life[e].seen \in {-1, 1}
              /\ life[e].age = 0 => life[e].seen = -1
              /\ NextPassOver(e) => life[e].seen = 1

\* One entity pushed in the first turn and one pushed in a later turn, both
\* updated.
C35_BothKindsUpdated ==
    /\ \E e \in DOMAIN life : life[e].turn = 1 /\ life[e].seen = 0
    /\ \E e \in DOMAIN life : life[e].turn = 2 /\ life[e].seen = 1


\* The fields of a World the game looks at: the size of the map, its tile
\* grid, the entities (logic, position, speed), the queue of spawnables.
SameWorld(w, v) ==
    /\ w.map.width = v.map.width /\ w.map.height = v.map.height
    /\ w.map.tiles = v.map.tiles
    /\ w.entities = v.entities
    /\ w.spawnables = v.spawnables

\* C21: the world MapFactory::create makes depends on the factory only: its
\* size and tile grid are the factory's, its entities are one Spawn per
\* known definition at the position of the definition, its queue of
\* spawnables is empty, and any other seed gives the same world.
C21_CreateIgnoresSeed ==
    gpc = "created" =>
        LET made == [map |-> map, entities |-> gents,
                     spawnables |-> SubSeq(gqueue, 1, Len(gqueue) - 1)]
        IN  /\ made.spawnables = <<>>
            /\ map.width = factory.width /\ map.height = factory.height
            /\ map.tiles = factory.tiles
            /\ \A seed \in Seeds :
                   SameWorld(MapFactoryCreate(factory, seed), made)

\* C21, the case: a world of two entities over a grid of two tiles was made.
C21_WorldOfTwoEntities ==
    /\ gpc = "created" /\ Len(gents) >= 2 /\ map.height = 2
    /\ gents[1].pos # gents[2].pos


\* The entities of the world: those of the vector, and the one held out of
\* it during a pass.
Present == Range(gents) \cup (IF InPass THEN {gkept} ELSE {})

SamePhysics(e, x) == x.id = e.id /\ x.pos = e.pos /\ x.speed = e.speed

\* The turn of an entity: a call of the closure of Game::update.
Turn == InPass' /\ (gpc \in {"created", "ready"} \/ gidx' # gidx)

\* C27: a step changes the position and the speed of no entity of the world
\* but the one whose update it calls, and the update of a Spawn changes
\* those of no entity at all.
C27_OthersPhysicsUntouched ==
    [][\A e \in Present :
          \/ Turn /\ e.id = gkept'.id /\ e.logic # "Spawn"
          \/ \E x \in Present' : SamePhysics(e, x)]_vars

\* C27, the case: a Character moved during its turn, with another entity in
\* the world.
C27_MovedAmongOthers ==
    /\ InPass /\ gkept.logic = "Character" /\ gkept.speed # ZeroVec
    /\ gents # <<>>

\* C27, the case of Spawn: a Spawn has added an entity to a world that held
\* another entity.
C27_SpawnedAmongOthers ==
    /\ InPass /\ gkept.logic = "Spawn" /\ Len(gents) >= 2
    /\ gents[Len(gents)].id > Len(gents)


\* The number of entities of the world.
Population == Len(gents) + (IF InPass THEN 1 ELSE 0)

\* The entities of the world without what their last update returned.
Bodies ==
    {[id |-> e.id, logic |-> e.logic, pos |-> e.pos, speed |-> e.speed]
     : e \in Present}

\* C28: no step of a tick takes an entity out of the world: the number of
\* entities does not decrease, each entity of the world is still in it after
\* the step, and the turn of an entity whose update only returns true or
\* false leaves the same world for both.
C28_NoEntityRemoved ==
    [][/\ Population' >= Population
       /\ \A e \in Present : \E x \in Present' : x.id = e.id
       /\ (Turn /\ gkept'.logic = "Other") => Bodies' = Bodies]_vars

\* C28, the case: two ticks are over, and an entity whose last update
\* returned false is in the world.
C28_StillThereAfterFalse ==
    /\ gpc = "ready" /\ ticks >= 2
    /\ \E j \in 1..Len(gents) : gents[j].logic = "Other" /\ ~gents[j].alive


\* SimpleSpawn::spawn called twice on one spawnable: the first call gives
\* the wrapped logic, the second nothing, and neither asks to be kept.
OneShot(sp) ==
    LET first == SimpleSpawnSpawn(sp)
        again == SimpleSpawnSpawn(first.self)
    IN  /\ ~first.keep /\ first.spawned = sp.entity_logic
        /\ ~again.keep /\ again.spawned = NoLogic

\* A Spawn polls the SimpleSpawn at the head of the queue.
PollsHead ==
    /\ Turn /\ gkept'.logic = "Spawn"
    /\ gqueue # <<>> /\ Head(gqueue).kind = "SimpleSpawn"

\* C29: a SimpleSpawn gives its logic to the first call of spawn and
\* nothing to a second one, asking neither time to be kept; the Spawn that
\* polls it takes it out of the queue and adds one entity of the wrapped
\* logic at its own position, without speed or sprite.
C29_SimpleSpawnOneShot ==
    /\ [](\A j \in 1..Len(gqueue) :
             gqueue[j].kind = "SimpleSpawn" => OneShot(gqueue[j]))
    /\ [][PollsHead =>
             /\ gqueue' = Tail(gqueue)
             /\ Population' = Population + 1
             /\ LET made == gents'[Len(gents')]
                IN  /\ made.logic = Head(gqueue).entity_logic
                    /\ made.pos = gkept'.pos /\ made.speed = ZeroVec
                    /\ ~made.sprite
                    /\ \A e \in Present : e.id # made.id]_vars

\* C29, the case: the Spawn of the map has taken the character out of the
\* queue Game::new filled, and the character is at the place of the Spawn.
C29_CharacterSpawnedOnce ==
    /\ factory # NoFactory /\ gpc = "newloop" /\ gqueue = <<>>
    /\ gents # <<>> /\ gents[Len(gents)].logic = "Character"
    /\ gents[Len(gents)].pos = gkept.pos

\* The entities of the world with the given logic.
OfLogic(logic) == {e \in Present : e.logic = logic}

\* Game::new was called on the example map.
OnExample == factory = ExampleFactory

\* C36: after Game::new on the example map the world holds five entities,
\* the four Spawn and one Character; the Character was created by the first
\* Spawn in update order at the position of that Spawn and was updated in
\* the initial tick, so that the focus was not empty and the camera, with
\* update_rate 1.0, was set to the desired framing exactly; the queue of
\* spawnables is empty, update_rate is then 0.1, and no later tick adds
\* an entity.
C36_ExampleGameOfFive ==
    /\ OnExample => gfail = "none"
    /\ (OnExample /\ gpc \in {"updated", "ready", "loop"}) =>
          /\ Population = 5
          /\ Cardinality(OfLogic("Spawn")) = 4
          /\ Cardinality(OfLogic("Character")) = 1
          /\ \A e \in OfLogic("Character") : e.id = 5 /\ e.sprite
          /\ gqueue = <<>>
    /\ (OnExample /\ gpc = "updated") =>
          /\ calls = <<ExampleSpawns[1]>>
          /\ \E e \in OfLogic("Spawn") : e.id = 1 /\ e.pos = ExampleSpawns[1]
          /\ focus # NoFocus
          /\ camera.update_rate = Unit
          /\ blend.done /\ blend.want = Desired(camera.aspect_ratio, focus)
          /\ camera.pos = blend.want.pos /\ camera.size = blend.want.size
    /\ (OnExample /\ gpc \in {"ready", "loop"}) =>
          camera.update_rate = PlayRate

\* The game of the example map after the ticks that followed Game::new.
C36_ExampleAfterTicks ==
    /\ OnExample /\ gpc = "ready" /\ ticks = MaxTicks
    /\ Population = 5 /\ gqueue = <<>>


\* Properties of App

\* The stack without its top.
Below(stack) == SubSeq(stack, 1, Len(stack) - 1)

\* C31: App::run applies the transition handle_state returned: End pops the
\* top state; Replace pops it and pushes the new state, the depth and the
\* lower states staying; Push pushes the new state over all the others;
\* Quit ends the run at any depth; the run ends when the stack is empty;
\* and handle_state is called on the top of the stack, which after an End
\* is the state below the one that ended.
C31_TransitionsApplied ==
    [][/\ (apc = "match" /\ trans.kind = "End") =>
             astates' = Below(astates) /\ apc' = "run"
       /\ (apc = "match" /\ trans.kind = "Replace") =>
             /\ Len(astates') = Len(astates)
             /\ Below(astates') = Below(astates)
             /\ astates'[Len(astates')] = [id |-> amade', kind |-> trans.state]
             /\ amade' = amade + 1 /\ apc' = "run"
       /\ (apc = "match" /\ trans.kind = "Push") =>
             /\ Below(astates') = astates
             /\ astates'[Len(astates')] = [id |-> amade', kind |-> trans.state]
             /\ amade' = amade + 1 /\ apc' = "run"
       /\ (apc = "match" /\ trans.kind = "Quit") =>
             apc' = "done" /\ astates' = astates
       /\ (apc = "run" /\ astates = <<>>) => apc' = "done"
       /\ (apc = "run" /\ astates # <<>>) =>
             /\ astates' = astates /\ apc' = "events"
             /\ call'.id = astates[Len(astates)].id
       /\ apc \in {"events", "done"} => astates' = astates]_vars

\* C31, the case: the state pushed over the first one has ended, and the
\* first one runs again.
C31_BackToStateBelow ==
    /\ apc = "events" /\ trans = End /\ amade >= 2 /\ Len(astates) = 1
    /\ astates[1].id = 1 /\ call.id = 1 /\ status[2] = "paused"

\* C31, the case of Replace and Quit: the run has ended on Quit with a
\* state that replaced another over a lower state.
C31_QuitAfterReplace ==
    /\ apc = "done" /\ trans = Quit /\ Len(astates) = 2
    /\ astates[1].id = 1 /\ astates[2].id = 3

\* The calls of ops are in the order handle_state makes them: resume first,
\* pause last.
InOrder(ops) ==
    \A j \in 1..Len(ops) :
        /\ ops[j] = "resume" => j = 1
        /\ ops[j] = "pause" => j = Len(ops)

\* C37: a call of handle_state resumes the state once, before any other
\* call on it, and pauses it once, after all of them and before it returns;
\* so each state goes from resumed to paused and back, starting with
\* resumed, and no state but the top of the stack is resumed.
C37_ResumeThenPause ==
    /\ [](/\ (apc = "events" =>
                /\ call.resumes = 1 /\ call.pauses = 0
                /\ status[call.id] = "resumed"
                /\ call.id = astates[Len(astates)].id)
           /\ (apc = "match" =>
                /\ call.resumes = 1 /\ call.pauses = 1
                /\ call.ops[Len(call.ops)] = "pause"
                /\ status[call.id] = "paused")
           /\ InOrder(call.ops)
           /\ \A j \in 1..Len(astates) :
                  status[astates[j].id] = "resumed" =>
                      (j = Len(astates) /\ apc = "events"))
    /\ [][\A j \in 1..MaxStates :
             status'[j] # status[j] =>
                 \/ status[j] = "none" /\ status'[j] = "new"
                 \/ status[j] \in {"new", "paused"} /\ status'[j] = "resumed"
                 \/ status[j] = "resumed" /\ status'[j] = "paused"]_vars

\* C37, the case: the game was paused, the pause menu pushed over it is
\* resumed and has drawn.
C37_MenuOverPausedGame ==
    /\ apc = "events" /\ Len(astates) = 2
    /\ astates[1].kind = "Game" /\ astates[2].kind = "PauseMenu"
    /\ status[astates[1].id] = "paused" /\ ~window.capture
    /\ call.ops = <<"handle_event", "draw">>

\* C38: handle_state never returns Continue and App::run never panics on
\* it; the call whose answer handle_state returns is followed by the pause
\* of the state and by nothing else.
C38_NeverContinue ==
    /\ afail = "none" /\ apc # "failed"
    /\ apc = "match" => trans.kind # "Continue"
    /\ call.ret # 0 =>
          /\ call.ops[call.ret] \in {"handle_event", "update"}
          /\ SubSeq(call.ops, call.ret + 1, Len(call.ops)) = <<"pause">>

\* C38, the case: the update of an update event asked for a transition.
C38_UpdateReturned ==
    /\ apc = "match" /\ call.ret = 2
    /\ call.ops = <<"handle_event", "update", "pause">>
    /\ trans.kind = "Push"


\* Properties of goto_state and update over any policy

\* C32: goto_state gives the policy the first state of the list as the
\* current one, whatever state of the list is being played, and adopts a
\* list the policy returns for it.
C32_GotoFromFirstState ==
    (hist.op = "goto_state" /\ hist.before.states # <<>>) =>
        /\ hist.current = hist.before.states[1]
        /\ failure = "none" =>
               anim.states \in TransitionTo(amap, hist.before.states[1],
                                            hist.state)

\* C32, the case: goto_state was called while a state other than the first
\* of a list of two or more was being played.
C32_GotoWhilePlayingLater ==
    /\ hist.op = "goto_state" /\ failure = "none"
    /\ Len(hist.before.states) >= 2 /\ hist.before.state_idx >= 1
    /\ hist.before.states[hist.before.state_idx + 1] # hist.before.states[1]


\* The positive durations of the sequences of a policy.
DurationsPositive(m) == \A st \in StatesOf(m) : Duration(m, st) > 0

\* C33: over a policy whose sequences all last more than nothing, the loop
\* of update never comes back, after an iteration, to the animation it was
\* entered with.  (The loop reads nothing but the animation: once it is
\* back where it was, with the time it had, it goes round for ever.)
C33_LoopNeverRepeats ==
    DurationsPositive(amap) =>
        ~(upd.pc = "loop" /\ upd.moved /\ anim = upd.entry)

\* The loop of an update of 9.2 over the sequences of the tests has ended
\* after an iteration.
C33_SmallUpdateEnds ==
    /\ upd.pc = "idle" /\ upd.moved /\ upd.dt = FromTenths(92)
    /\ amap.kind = "TestMap" /\ anim.sequence_time < TestDuration


\* The loop taken step by step ends where Animation::update taken as a
\* whole does.
LoopAgreesWithUpdate ==
    (upd.pc = "idle" /\ upd.dt # DtHuge /\ upd.entry.states # <<>>) =>
        [a |-> anim, fail |-> failure] \in UpdateLoop(amap, upd.entry)

============================================================================
